---------------------------- MODULE Spec2Model ----------------------------
(***************************************************************************)
(* A model of dumbdb: the length-prefixed append-only log (Block), the     *)
(* byte-offset index with its shared write cursor (Index), TableBuffer,    *)
(* Catalog, the DDL/DML query layer and the filter-expression evaluator.   *)
(*                                                                         *)
(* A log file is modelled byte by byte (a sequence of 0..255): frames are  *)
(* found by reading the 8-byte little-endian prefix, and tuples are        *)
(* encoded and decoded in the MessagePack subset rmp_serde produces for    *)
(* Vec<Option<ColumnValue>>.                                               *)
(***************************************************************************)
EXTENDS Integers, Sequences, FiniteSets, TLC

(***************************************************************************)
(* Bounds of the model.                                                    *)
(***************************************************************************)
\* the largest number of frames a put_item may bring a log to
MaxFrames == 2

\* lengths read from a prefix are told apart below this value only (2^24)
LengthCap == 16777216

(***************************************************************************)
(* ColumnValue and Option<ColumnValue> (query/types.rs).  Every value is a *)
(* record of one shape: n carries an Integer or a Boolean (0/1), s the     *)
(* bytes of a Text.                                                        *)
(***************************************************************************)
Integer(k) == [tag |-> "Integer", n |-> k, s |-> << >>]

Boolean(b) == [tag |-> "Boolean", n |-> b, s |-> << >>]

Text(str) == [tag |-> "Text", n |-> 0, s |-> str]

\* Option::None at a tuple position
Null == [tag |-> "Null", n |-> 0, s |-> << >>]

\* position of a variant in the enum declaration: the derived order compares it first
VariantRank(v) ==
    CASE v.tag = "Integer" -> 0
      [] v.tag = "Boolean" -> 1
      [] v.tag = "Text" -> 2
      [] OTHER -> 3

RECURSIVE BytesLt(_, _)
\* lexicographic order of two byte strings (str's Ord)
BytesLt(a, b) ==
    IF b = << >> THEN FALSE
    ELSE IF a = << >> THEN TRUE
    ELSE IF a[1] # b[1] THEN a[1] < b[1]
    ELSE BytesLt(Tail(a), Tail(b))

\* an order that leaves values of different variants unordered
ColumnValueLt_same_variant(a, b) ==
    IF VariantRank(a) # VariantRank(b) THEN FALSE
    ELSE IF a.tag = "Text" THEN BytesLt(a.s, b.s)
    ELSE a.n < b.n

\* #[derive(PartialOrd)] on ColumnValue: variant first, then the payload
ColumnValueLt(a, b) ==
    IF VariantRank(a) # VariantRank(b) THEN VariantRank(a) < VariantRank(b)
    ELSE IF a.tag = "Text" THEN BytesLt(a.s, b.s)
    ELSE a.n < b.n

(***************************************************************************)
(* Frame encoding (storage.rs).                                            *)
(***************************************************************************)
LENGTH_PREFIX_SIZE == 8

\* an offset that leaves the length prefix out
calculate_new_offset_payload(tuple_length, current_offset) ==
    current_offset + tuple_length

calculate_new_offset(tuple_length, current_offset) ==
    current_offset + LENGTH_PREFIX_SIZE + tuple_length

RECURSIVE LeBytes(_, _)
\* the k low bytes of x, lowest first
LeBytes(x, k) == IF k = 0 THEN << >> ELSE <<x % 256>> \o LeBytes(x \div 256, k - 1)

\* u64::to_le_bytes
to_le_bytes(x) == LeBytes(x, LENGTH_PREFIX_SIZE)

\* u64::from_le_bytes; a length of LengthCap or more exceeds every file of the
\* model and is kept as LengthCap
from_le_bytes(bs) ==
    IF \E i \in 4..Len(bs) : bs[i] # 0 THEN LengthCap
    ELSE bs[1] + 256 * bs[2] + 65536 * bs[3]

\* an encoding that writes a Boolean as the integer 0 or 1
EncodeValue_bool_as_int(v) ==
    CASE v.tag = "Null" -> <<192>>
      [] v.tag = "Boolean" -> <<v.n>>
      [] v.tag = "Integer" ->
            IF v.n < 128 THEN <<v.n>>
            ELSE IF v.n < 256 THEN <<204, v.n>>
            ELSE <<205, (v.n \div 256) % 256, v.n % 256>>
      [] OTHER -> <<160 + Len(v.s)>> \o v.s

\* one Option<ColumnValue> in MessagePack: nil, bool, the shortest unsigned
\* integer form, fixstr
EncodeValue(v) ==
    CASE v.tag = "Null" -> <<192>>
      [] v.tag = "Boolean" -> IF v.n = 1 THEN <<195>> ELSE <<194>>
      [] v.tag = "Integer" ->
            IF v.n < 128 THEN <<v.n>>
            ELSE IF v.n < 256 THEN <<204, v.n>>
            ELSE <<205, (v.n \div 256) % 256, v.n % 256>>
      [] OTHER -> <<160 + Len(v.s)>> \o v.s

RECURSIVE EncodeValues(_)
EncodeValues(tuple) ==
    IF tuple = << >> THEN << >>
    ELSE EncodeValue(Head(tuple)) \o EncodeValues(Tail(tuple))

\* rmp_serde of a Tuple: a fixarray header, then the elements
serialize_binary(tuple) == <<144 + Len(tuple)>> \o EncodeValues(tuple)

\* the result of a failed decode
DecodeError == [ok |-> FALSE, v |-> Null, next |-> 0]

\* one Option<ColumnValue> read at position p of bs; the untagged enum takes
\* an unsigned integer as Integer, a bool as Boolean, a str as Text
DecodeValue(bs, p) ==
    IF p > Len(bs) THEN DecodeError
    ELSE LET m == bs[p] IN
        IF m < 128 THEN [ok |-> TRUE, v |-> Integer(m), next |-> p + 1]
        ELSE IF m = 192 THEN [ok |-> TRUE, v |-> Null, next |-> p + 1]
        ELSE IF m = 194 THEN [ok |-> TRUE, v |-> Boolean(0), next |-> p + 1]
        ELSE IF m = 195 THEN [ok |-> TRUE, v |-> Boolean(1), next |-> p + 1]
        ELSE IF m = 204 /\ p + 1 <= Len(bs)
            THEN [ok |-> TRUE, v |-> Integer(bs[p + 1]), next |-> p + 2]
        ELSE IF m = 205 /\ p + 2 <= Len(bs)
            THEN [ok |-> TRUE, v |-> Integer(256 * bs[p + 1] + bs[p + 2]), next |-> p + 3]
        ELSE IF m >= 160 /\ m < 192 /\ p + (m - 160) <= Len(bs)
            THEN [ok |-> TRUE, v |-> Text(SubSeq(bs, p + 1, p + (m - 160))),
                  next |-> p + (m - 160) + 1]
        ELSE DecodeError

\* the element d in front of the decoded rest of a tuple
DecodeCons(d, rest) ==
    IF ~rest.ok THEN rest ELSE [ok |-> TRUE, tuple |-> <<d.v>> \o rest.tuple]

RECURSIVE DecodeValues(_, _, _)
RECURSIVE DecodeAfter(_, _, _)
\* the k elements of which d is the first, already read
DecodeAfter(bs, d, k) ==
    IF ~d.ok THEN [ok |-> FALSE, tuple |-> << >>]
    ELSE DecodeCons(d, DecodeValues(bs, d.next, k - 1))

\* k more elements from position p on: [ok, tuple]
DecodeValues(bs, p, k) ==
    IF k = 0 THEN [ok |-> TRUE, tuple |-> << >>]
    ELSE DecodeAfter(bs, DecodeValue(bs, p), k)

\* rmp_serde back to a Tuple: [ok, tuple]
deserialize_binary(bs) ==
    IF bs = << >> \/ bs[1] < 144 \/ bs[1] > 159 THEN [ok |-> FALSE, tuple |-> << >>]
    ELSE DecodeValues(bs, 2, bs[1] - 144)

(***************************************************************************)
(* Block: the log file of one table (storage.rs).  A file is its bytes;    *)
(* byte offset o of the code is position o + 1 of the sequence.            *)
(***************************************************************************)
\* a write through a handle opened without append: it starts at offset 0
write_to_file_at_start(file, length_bytes, data) ==
    length_bytes \o data
        \o SubSeq(file, Len(length_bytes) + Len(data) + 1, Len(file))

\* Block::write with write_to_file: the prefix and the payload go to the end
\* of the file (the handle is opened in append mode)
write_to_file(file, length_bytes, data) == file \o length_bytes \o data

\* the file and the length Block::write returns, for the payload `serialized`
WriteFrame(file, serialized) ==
    [file |-> write_to_file(file, to_le_bytes(Len(serialized)), serialized),
     length |-> Len(serialized)]

Block_write(file, tuple) == WriteFrame(file, serialize_binary(tuple))

\* the 8 bytes read at byte offset `offset`, as a length
PrefixAt(file, offset) ==
    from_le_bytes(SubSeq(file, offset + 1, offset + LENGTH_PREFIX_SIZE))

\* seek_to_offset after the prefix: the payload is read in full, then decoded
ReadPayload(file, start, tuple_length) ==
    IF start + tuple_length > Len(file) THEN [ok |-> FALSE, tuple |-> << >>]
    ELSE deserialize_binary(SubSeq(file, start + 1, start + tuple_length))

\* Block::seek_to_offset: [ok, tuple]; a short read of the prefix or of the
\* payload, or a failed decode, is an error
seek_to_offset(file, offset) ==
    IF offset + LENGTH_PREFIX_SIZE > Len(file) THEN [ok |-> FALSE, tuple |-> << >>]
    ELSE ReadPayload(file, offset + LENGTH_PREFIX_SIZE, PrefixAt(file, offset))

RECURSIVE StreamFrom(_, _)
RECURSIVE StreamPayload(_, _, _)
\* the unfold after the prefix: the frame's payload, then the next frames
StreamPayload(file, start, length) ==
    IF start + length > Len(file) THEN << >>
    ELSE <<[data |-> SubSeq(file, start + 1, start + length), length |-> length]>>
         \o StreamFrom(file, start + length)

\* the unfold of get_stream_with_length from byte offset `offset`: it ends,
\* without an error, as soon as a prefix or a payload cannot be read in full
StreamFrom(file, offset) ==
    IF offset + LENGTH_PREFIX_SIZE > Len(file) THEN << >>
    ELSE StreamPayload(file, offset + LENGTH_PREFIX_SIZE, PrefixAt(file, offset))

\* a stream that yields the frames of the file last frame first
get_stream_with_length_backwards(file) ==
    [i \in 1..Len(StreamFrom(file, 0)) |->
        StreamFrom(file, 0)[Len(StreamFrom(file, 0)) + 1 - i]]

\* every call opens the file anew and starts at offset 0
get_stream_with_length(file) == StreamFrom(file, 0)

\* one item of get_reader_with_length's stream: [ok, tuple, length]
DecodedFrame(d, length) == [ok |-> d.ok, tuple |-> d.tuple, length |-> length]

\* the map of deserialize_binary over the stream
DecodeStream(stream) ==
    [i \in 1..Len(stream) |->
        DecodedFrame(deserialize_binary(stream[i].data), stream[i].length)]

\* the stream of [ok, tuple, length]
get_reader_with_length(file) == DecodeStream(get_stream_with_length(file))

\* the map that drops the lengths
DropLengths(stream) ==
    [i \in 1..Len(stream) |-> [ok |-> stream[i].ok, tuple |-> stream[i].tuple]]

\* the stream of [ok, tuple]
get_reader(file) == DropLengths(get_reader_with_length(file))

(***************************************************************************)
(* Index and TableBuffer (table.rs).  The index map belongs to one         *)
(* TableBuffer value; the cursor byte_offset is a cell shared by the       *)
(* clones of that value.                                                   *)
(***************************************************************************)
EmptyIndex == [k \in {} |-> 0]

\* an update that records the key at the cursor it has advanced
Index_update_after(index, byte_offset, key, tuple_length) ==
    [index |-> (key :> calculate_new_offset(tuple_length, byte_offset)) @@ index,
     byte_offset |-> calculate_new_offset(tuple_length, byte_offset)]

\* an update that keeps the offset a key already has
Index_update_keep_first(index, byte_offset, key, tuple_length) ==
    [index |-> index @@ (key :> byte_offset),
     byte_offset |-> calculate_new_offset(tuple_length, byte_offset)]

\* Index::update: the key is recorded at the cursor, the cursor advances
Index_update(index, byte_offset, key, tuple_length) ==
    [index |-> (key :> byte_offset) @@ index,
     byte_offset |-> calculate_new_offset(tuple_length, byte_offset)]

\* Vec::position of the first column called `name`; 0 when there is none
Position(columns, name) ==
    IF \E i \in 1..Len(columns) : columns[i].name = name
    THEN CHOOSE i \in 1..Len(columns) :
            /\ columns[i].name = name
            /\ \A j \in 1..(i - 1) : columns[j].name # name
    ELSE 0

RECURSIVE BuildIndexFrom(_, _, _, _)
RECURSIVE BuildIndexAfter(_, _, _)
\* the loop of build_index after Index::update gave u
BuildIndexAfter(stream, pk_position, u) ==
    BuildIndexFrom(stream, pk_position, u.index, u.byte_offset)

\* the loop of build_index over the frames not yet read
BuildIndexFrom(stream, pk_position, index, byte_offset) ==
    IF stream = << >> THEN [status |-> "Ok", index |-> index, byte_offset |-> byte_offset]
    ELSE IF ~stream[1].ok
        THEN [status |-> "StorageError", index |-> index, byte_offset |-> byte_offset]
    ELSE IF pk_position > Len(stream[1].tuple)
        THEN [status |-> "Panic", index |-> index, byte_offset |-> byte_offset]
    ELSE IF stream[1].tuple[pk_position] = Null
        THEN [status |-> "PrimaryKeyNotInTuple", index |-> index,
              byte_offset |-> byte_offset]
    ELSE BuildIndexAfter(Tail(stream), pk_position,
            Index_update(index, byte_offset, stream[1].tuple[pk_position],
                         stream[1].length))

\* a replay that reads no frame
build_index_nothing(file, pk_position) ==
    [status |-> "Ok", index |-> EmptyIndex, byte_offset |-> 0]

build_index(file, pk_position) ==
    BuildIndexFrom(get_reader_with_length(file), pk_position, EmptyIndex, 0)

\* the TableBuffer of an index built: [status, index, byte_offset, pk_position]
TableBufferOf(built, key_position) ==
    [status |-> built.status, index |-> built.index, byte_offset |-> built.byte_offset,
     pk_position |-> key_position]

\* TableBuffer::new once the key's position is known
TableBufferAt(table_definition, fs, key_position) ==
    IF key_position = 0
    THEN [status |-> "PrimaryKeyNotInDefn", index |-> EmptyIndex, byte_offset |-> 0,
          pk_position |-> 0]
    ELSE IF table_definition.name \notin DOMAIN fs
    THEN [status |-> "StorageError", index |-> EmptyIndex, byte_offset |-> 0,
          pk_position |-> key_position]
    ELSE TableBufferOf(build_index(fs[table_definition.name], key_position), key_position)

\* TableBuffer::new over the directory `fs` (file name -> bytes):
\* [status, index, byte_offset, pk_position]
TableBuffer_new(table_definition, fs) ==
    TableBufferAt(table_definition, fs,
                  Position(table_definition.columns, table_definition.primary_key))

RECURSIVE ScanFrom(_, _, _)
\* the loop of scan_block_get_item: [status, found, tuple]
ScanFrom(stream, pk_position, user_key) ==
    IF stream = << >> THEN [status |-> "Ok", found |-> FALSE, tuple |-> << >>]
    ELSE IF ~stream[1].ok
        THEN [status |-> "StorageError", found |-> FALSE, tuple |-> << >>]
    ELSE IF pk_position > Len(stream[1].tuple)
        THEN [status |-> "Panic", found |-> FALSE, tuple |-> << >>]
    ELSE IF stream[1].tuple[pk_position] = Null
        THEN [status |-> "PrimaryKeyNotInTuple", found |-> FALSE, tuple |-> << >>]
    ELSE IF stream[1].tuple[pk_position] = user_key
        THEN [status |-> "Ok", found |-> TRUE, tuple |-> stream[1].tuple]
    ELSE ScanFrom(Tail(stream), pk_position, user_key)

scan_block_get_item(file, pk_position, user_key) ==
    ScanFrom(get_reader(file), pk_position, user_key)

\* TableBuffer::get on an index hit, r the frame read at the offset
SeekResult(r) ==
    IF r.ok THEN [status |-> "Ok", found |-> TRUE, tuple |-> r.tuple]
    ELSE [status |-> "StorageError", found |-> FALSE, tuple |-> << >>]

\* a get that scans the file first whenever scan_file is set
TableBuffer_get_scan_first(index, pk_position, file, key, scan_file) ==
    IF scan_file THEN scan_block_get_item(file, pk_position, key)
    ELSE IF key \in DOMAIN index THEN SeekResult(seek_to_offset(file, index[key]))
    ELSE [status |-> "Ok", found |-> FALSE, tuple |-> << >>]

\* TableBuffer::get: [status, found, tuple]
TableBuffer_get(index, pk_position, file, key, scan_file) ==
    IF key \in DOMAIN index THEN SeekResult(seek_to_offset(file, index[key]))
    ELSE IF scan_file THEN scan_block_get_item(file, pk_position, key)
    ELSE [status |-> "Ok", found |-> FALSE, tuple |-> << >>]

\* a contains_key that finds no key
contains_key_never(index, key) == FALSE

contains_key(index, key) == key \in DOMAIN index

size(index) == Cardinality(DOMAIN index)

(***************************************************************************)
(* Catalog and Table (catalog.rs).  A Table is                             *)
(* [name, columns, primary_key, index, pk_position]; its cursor is the     *)
(* cell byte_offset[name].                                                 *)
(***************************************************************************)
\* position in `tables` of the first table called `name`; 0 when there is none
TablePosition(tables, name) ==
    IF \E i \in 1..Len(tables) : tables[i].name = name
    THEN CHOOSE i \in 1..Len(tables) :
            /\ tables[i].name = name
            /\ \A j \in 1..(i - 1) : tables[j].name # name
    ELSE 0

\* a lookup that finds no table
has_table_never(tables, name) == FALSE

\* Catalog::get_table(name).is_some()
has_table(tables, name) == TablePosition(tables, name) # 0

\* Catalog::get_table, where the table exists
get_table(tables, name) == tables[TablePosition(tables, name)]

\* a get_table_size that counts the keys of the first table of the catalog
get_table_size_first(tables, name) ==
    IF has_table(tables, name) THEN size(tables[1].index) ELSE 0

\* Catalog::get_table_size, 0 standing for None
get_table_size(tables, name) ==
    IF has_table(tables, name) THEN size(get_table(tables, name).index) ELSE 0

list_tables(tables) == [i \in 1..Len(tables) |-> tables[i].name]

\* From<&Table> for TableDefinition
TableDefinitionOf(table) ==
    [name |-> table.name, columns |-> table.columns, primary_key |-> table.primary_key]

\* a document written before the last table was pushed
SerializableCatalog_stale(tables) ==
    [i \in 1..(Len(tables) - 1) |-> TableDefinitionOf(tables[i])]

\* the document Catalog::flush writes
SerializableCatalog(tables) == [i \in 1..Len(tables) |-> TableDefinitionOf(tables[i])]

\* the Table of a definition and its TableBuffer tb: [status, table, byte_offset]
TableOf(table_definition, tb) ==
    [status |-> tb.status,
     table |-> [name |-> table_definition.name, columns |-> table_definition.columns,
                primary_key |-> table_definition.primary_key, index |-> tb.index,
                pk_position |-> tb.pk_position],
     byte_offset |-> tb.byte_offset]

\* a Table over an index left empty
Table_new_unread(table_definition, fs) ==
    TableOf(table_definition,
            [status |-> "Ok", index |-> EmptyIndex, byte_offset |-> 0,
             pk_position |-> Position(table_definition.columns,
                                      table_definition.primary_key)])

\* Table::new: [status, table, byte_offset]
Table_new(table_definition, fs) ==
    TableOf(table_definition, TableBuffer_new(table_definition, fs))

\* the table t in front of the tables loaded after it
LoadCons(t, rest) ==
    IF rest.status # "Ok" THEN rest
    ELSE [status |-> "Ok", tables |-> <<t.table>> \o rest.tables,
          offsets |-> {<<t.table.name, t.byte_offset>>} \cup rest.offsets]

RECURSIVE LoadTables(_, _)
RECURSIVE LoadAfter(_, _, _)
\* the loop of Catalog::new after Table::new gave t: its error ends the loop
LoadAfter(t, stored, fs) ==
    IF t.status # "Ok" THEN [status |-> t.status, tables |-> << >>, offsets |-> {}]
    ELSE LoadCons(t, LoadTables(stored, fs))

\* the loop of Catalog::new over the stored definitions: [status, tables, offsets],
\* offsets the set of <<name, cursor>> of the tables built
LoadTables(stored, fs) ==
    IF stored = << >> THEN [status |-> "Ok", tables |-> << >>, offsets |-> {}]
    ELSE LoadAfter(Table_new(Head(stored), fs), Tail(stored), fs)

\* Catalog::new; cfile is << >> when there is no catalog.json and <<document>>
\* when there is one
Catalog_new(cfile, fs) ==
    LoadTables(IF cfile = << >> THEN << >> ELSE cfile[1], fs)

(***************************************************************************)
(* put_item (query/dml/put_item.rs).  An item maps column names to values. *)
(***************************************************************************)
\* a typecheck that accepts every value
typecheck_column_any(column, value) == "Ok"

\* typecheck_column: "Ok" or the error
typecheck_column(column, value) ==
    IF column.type = value.tag /\ column.type \in {"Boolean", "Integer", "Text"}
    THEN "Ok" ELSE "ColumnTypeMismatch"

\* a loop body that looks the column up and does not compare the types
CheckColumn_untyped(table, column_name, value) ==
    IF Position(table.columns, column_name) = 0 THEN "UnknownColumnInItem" ELSE "Ok"

\* the body of the validation loop for one entry of the item
CheckColumn(table, column_name, value) ==
    LET p == Position(table.columns, column_name) IN
    IF p = 0 THEN "UnknownColumnInItem" ELSE typecheck_column(table.columns[p], value)

\* the statuses put_item may end with before it inserts: the loop over the
\* item's entries follows the HashMap's iteration order, which is unspecified,
\* so with several failing entries any of their errors may be the one returned
\* the errors of the item's entries, in no order
ColumnErrors(table, item) ==
    {CheckColumn(table, c, item[c]) : c \in DOMAIN item} \ {"Ok"}

\* a validation that looks at the columns before it looks the key up
CheckItem_columns_first(table, item) ==
    IF table.primary_key \notin DOMAIN item THEN {"ItemMustContainPrimaryKey"}
    ELSE IF ColumnErrors(table, item) # {} THEN ColumnErrors(table, item)
    ELSE IF contains_key(table.index, item[table.primary_key])
    THEN {"PrimaryKeyAlreadyExists"}
    ELSE {"Ok"}

\* put_item's validation once the table is found
CheckItem(table, item) ==
    IF table.primary_key \notin DOMAIN item THEN {"ItemMustContainPrimaryKey"}
    ELSE IF contains_key(table.index, item[table.primary_key])
    THEN {"PrimaryKeyAlreadyExists"}
    ELSE IF ColumnErrors(table, item) = {} THEN {"Ok"}
    ELSE ColumnErrors(table, item)

put_item_check(tables, table_name, item) ==
    IF ~has_table(tables, table_name) THEN {"TableNotFound"}
    ELSE CheckItem(get_table(tables, table_name), item)

\* item_to_tuple: a column takes its value out of the item, so a later column
\* of the same name finds nothing
item_to_tuple(item, columns) ==
    [i \in 1..Len(columns) |->
        IF /\ columns[i].name \in DOMAIN item
           /\ \A j \in 1..(i - 1) : columns[j].name # columns[i].name
        THEN item[columns[i].name] ELSE Null]

(***************************************************************************)
(* get_item and Record (query/dml/common.rs, table.rs).                    *)
(***************************************************************************)
\* build_record: insert by column name, position by position; a later
\* position of the same name replaces the earlier one
build_record(columns, item) ==
    [c \in {columns[i].name : i \in 1..Len(item)} |->
        item[CHOOSE i \in 1..Len(item) :
                /\ columns[i].name = c
                /\ \A j \in (i + 1)..Len(item) : columns[j].name # c]]

EmptyRecord == [c \in {} |-> Null]

\* get_item after TableBuffer::get gave r: the tuple found becomes a record
RecordOf(columns, r) ==
    IF r.status # "Ok"
    THEN [status |-> "TableStorageError", found |-> FALSE, record |-> EmptyRecord]
    ELSE IF ~r.found THEN [status |-> "Ok", found |-> FALSE, record |-> EmptyRecord]
    ELSE IF Len(r.tuple) > Len(columns)
    THEN [status |-> "Panic", found |-> FALSE, record |-> EmptyRecord]
    ELSE [status |-> "Ok", found |-> TRUE, record |-> build_record(columns, r.tuple)]

\* get_item once the table is found
GetFrom(table, fs, key, scan_file) ==
    IF table.name \notin DOMAIN fs
    THEN [status |-> "TableStorageError", found |-> FALSE, record |-> EmptyRecord]
    ELSE RecordOf(table.columns,
            TableBuffer_get(table.index, table.pk_position, fs[table.name], key, scan_file))

\* get_item: [status, found, record]
get_item(tables, fs, table_name, key, scan_file) ==
    IF ~has_table(tables, table_name)
    THEN [status |-> "TableNotFound", found |-> FALSE, record |-> EmptyRecord]
    ELSE GetFrom(get_table(tables, table_name), fs, key, scan_file)

\* a facade that lets get_item scan the log
Database_get_item_scanning(tables, fs, table_name, key) ==
    get_item(tables, fs, table_name, key, TRUE)

\* Database::get_item: get_item with scan_file false
Database_get_item(tables, fs, table_name, key) ==
    get_item(tables, fs, table_name, key, FALSE)

(***************************************************************************)
(* filter_item (query/dml/filter_item.rs).  An Expression is               *)
(* [kind, column, operator, value, subs]: kind "cmp" uses column, operator *)
(* and value; "and" and "or" use subs; "not" has its operand as subs[1].   *)
(***************************************************************************)
Comparison(column, operator, value) ==
    [kind |-> "cmp", column |-> column, operator |-> operator, value |-> value,
     subs |-> << >>]

And(subs) == [kind |-> "and", column |-> "", operator |-> "", value |-> Null, subs |-> subs]

Or(subs) == [kind |-> "or", column |-> "", operator |-> "", value |-> Null, subs |-> subs]

Not(e) == [kind |-> "not", column |-> "", operator |-> "", value |-> Null, subs |-> <<e>>]

evaluate_binary_operator(operator, val_a, val_b) ==
    CASE operator = "Eq" -> val_a = val_b
      [] operator = "Neq" -> val_a # val_b
      [] operator = "Gt" -> ColumnValueLt(val_b, val_a)
      [] operator = "Lt" -> ColumnValueLt(val_a, val_b)
      [] operator = "Gte" -> ColumnValueLt(val_b, val_a) \/ val_a = val_b
      [] OTHER -> ColumnValueLt(val_a, val_b) \/ val_a = val_b

\* Expression::Comparison at the column's position: the column and its value
\* are unwrapped
CompareAt(col_pos, expression, tuple) ==
    IF col_pos = 0 \/ col_pos > Len(tuple) THEN "panic"
    ELSE IF tuple[col_pos] = Null THEN "panic"
    ELSE IF evaluate_binary_operator(expression.operator, tuple[col_pos], expression.value)
    THEN "true" ELSE "false"

\* Expression::Not of an operand evaluated to r
Negation(r) == IF r = "panic" THEN r ELSE IF r = "true" THEN "false" ELSE "true"

RECURSIVE evaluate_expression(_, _, _)
RECURSIVE EvalAll(_, _, _)
RECURSIVE EvalAny(_, _, _)
RECURSIVE AllAfter(_, _, _, _)
RECURSIVE AnyAfter(_, _, _, _)
\* an all that evaluates the elements after a false one too
AllAfter_eager(r, columns, expressions, tuple) ==
    IF r = "panic" \/ EvalAll(columns, expressions, tuple) = "panic" THEN "panic"
    ELSE IF r = "true" THEN EvalAll(columns, expressions, tuple) ELSE r

\* Iterator::all after an element evaluated to r: it ends at the first false
AllAfter(r, columns, expressions, tuple) ==
    IF r = "true" THEN EvalAll(columns, expressions, tuple) ELSE r

\* Iterator::any after an element evaluated to r: it ends at the first true
AnyAfter(r, columns, expressions, tuple) ==
    IF r = "false" THEN EvalAny(columns, expressions, tuple) ELSE r

\* an Iterator::all that is false over no element
EvalAll_empty_false(columns, expressions, tuple) ==
    IF expressions = << >> THEN "false"
    ELSE AllAfter(evaluate_expression(columns, Head(expressions), tuple),
                  columns, Tail(expressions), tuple)

\* Iterator::all, left to right; "panic" when an evaluation it reaches panics
EvalAll(columns, expressions, tuple) ==
    IF expressions = << >> THEN "true"
    ELSE AllAfter(evaluate_expression(columns, Head(expressions), tuple),
                  columns, Tail(expressions), tuple)

\* Iterator::any, left to right
EvalAny(columns, expressions, tuple) ==
    IF expressions = << >> THEN "false"
    ELSE AnyAfter(evaluate_expression(columns, Head(expressions), tuple),
                  columns, Tail(expressions), tuple)

\* "true", "false", or "panic" where an unwrap meets None
evaluate_expression(columns, expression, tuple) ==
    CASE expression.kind = "cmp" ->
            CompareAt(Position(columns, expression.column), expression, tuple)
      [] expression.kind = "and" -> EvalAll(columns, expression.subs, tuple)
      [] expression.kind = "or" -> EvalAny(columns, expression.subs, tuple)
      [] OTHER -> Negation(evaluate_expression(columns, expression.subs[1], tuple))

\* the record of a matching tuple in front of the records that follow
FilterCons(m, columns, tuple, rest) ==
    IF rest.status # "Ok" THEN rest
    ELSE IF m = "true"
    THEN [status |-> "Ok", records |-> <<build_record(columns, tuple)>> \o rest.records]
    ELSE rest

RECURSIVE FilterFrom(_, _, _)
RECURSIVE FilterAfter(_, _, _, _)
\* the loop of filter_item after the filter evaluated to m on the first tuple
FilterAfter(m, stream, table, filter) ==
    IF m = "panic" \/ (m = "true" /\ Len(stream[1].tuple) > Len(table.columns))
    THEN [status |-> "Panic", records |-> << >>]
    ELSE FilterCons(m, table.columns, stream[1].tuple,
                    FilterFrom(Tail(stream), table, filter))

\* the loop of filter_item over the frames not yet read: [status, records]
FilterFrom(stream, table, filter) ==
    IF stream = << >> THEN [status |-> "Ok", records |-> << >>]
    ELSE IF ~stream[1].ok THEN [status |-> "TableStorageError", records |-> << >>]
    ELSE FilterAfter(evaluate_expression(table.columns, filter, stream[1].tuple),
                     stream, table, filter)

\* filter_item: [status, records]
filter_item(tables, fs, table_name, filter) ==
    IF ~has_table(tables, table_name) THEN [status |-> "TableNotFound", records |-> << >>]
    ELSE IF table_name \notin DOMAIN fs
    THEN [status |-> "TableStorageError", records |-> << >>]
    ELSE FilterFrom(get_reader(fs[table_name]), get_table(tables, table_name), filter)

(***************************************************************************)
(* The inputs the operations are tried with.                               *)
(***************************************************************************)
TableNames == {"a", "b"}

\* the Database values (handles); a clone is a second handle
Handles == {1, 2}

Column(name, type) == [name |-> name, type |-> type]

TableDefinition(name, columns, primary_key) ==
    [name |-> name, columns |-> columns, primary_key |-> primary_key]

\* the schemas create_table is tried with for table "a": the tests' authors
\* schema, the same with the key in second position, one with a column name
\* twice, and one whose primary key names no column
SchemasOf(name) ==
    { TableDefinition(name, <<Column("id", "Integer"), Column("name", "Text")>>, "id"),
      TableDefinition(name, <<Column("name", "Text"), Column("id", "Integer")>>, "id"),
      TableDefinition(name, <<Column("id", "Integer"), Column("id", "Integer")>>, "id"),
      TableDefinition(name, <<Column("id", "Integer")>>, "name") }

\* table "b", the second table of the directory, has the authors schema
Definitions ==
    SchemasOf("a") \cup
    {TableDefinition("b", <<Column("id", "Integer"), Column("name", "Text")>>, "id")}

\* "a" and "ab"
TextA == Text(<<97>>)

TextAB == Text(<<97, 98>>)

\* items that pass validation under the first two schemas, with keys whose
\* encodings differ in length
ValidItems ==
    { ("id" :> Integer(1)),
      ("id" :> Integer(1)) @@ ("name" :> TextAB),
      ("id" :> Integer(200)),
      ("id" :> Integer(200)) @@ ("name" :> TextA) }

\* items put_item rejects: no primary key, a key of the wrong type, an
\* unknown column, a value of the wrong type, and two failing entries at once
InvalidItems ==
    { ("name" :> TextA),
      ("id" :> TextA),
      ("id" :> Integer(1)) @@ ("zip" :> Integer(1)),
      ("id" :> Integer(200)) @@ ("name" :> Boolean(1)),
      ("id" :> Integer(1)) @@ ("name" :> Integer(1)) @@ ("zip" :> Integer(1)) }

Items == ValidItems \cup InvalidItems

\* table "b" is tried with one item that passes and one that does not
ItemsFor(table_name) ==
    IF table_name = "a" THEN Items ELSE {("id" :> Integer(1)), ("name" :> TextA)}

\* keys get_item is tried with: the two that may be stored, and a Text that
\* prints like a stored Integer and never is
Keys == {Integer(1), Integer(200), Text(<<49>>)}

\* filters filter_item is tried with
Filters ==
    { And(<< >>),
      Or(<< >>),
      Comparison("id", "Gt", Integer(1)),
      Comparison("name", "Eq", TextA),
      Comparison("zip", "Eq", Integer(1)),
      And(<<Comparison("id", "Gt", Integer(0)), Comparison("id", "Lt", Integer(200))>>),
      Or(<<Comparison("id", "Eq", Integer(200)),
           And(<<Comparison("id", "Gte", Integer(1)), Comparison("name", "Neq", TextA)>>)>>),
      Not(Comparison("id", "Lte", Integer(1))),
      Not(And(<< >>)),
      Not(Or(<< >>)) }

(***************************************************************************)
(* State.                                                                  *)
(***************************************************************************)
VARIABLES
    files,        \* the directory: table name -> bytes of <name>.dat, for the files that exist
    catalog_file, \* catalog.json: << >> when absent, else <<the definitions written>>
    opened,       \* handle -> whether the Database value exists
    tables,       \* handle -> Catalog.tables of that Database
    byte_offset,  \* table name -> the cursor cell shared by the clones of its TableBuffer
    pc,           \* handle -> "idle", or "appended" inside TableBuffer::write
    pending,      \* handle -> the write in flight: [table, key, length, item]
    result,       \* the last response returned to a caller
    puts,         \* history: table name -> the <<key, item>> put with success, in order
    lost,         \* history: the writes a stop of the process cut off after the append
    queue,        \* the server's RwLock<Database>: the tasks waiting for it, first come first
    task          \* the server's handler tasks: task -> [state, request]

vars == <<files, catalog_file, opened, tables, byte_offset, pc, pending, result, puts, lost,
          queue, task>>

\* the state of the server, which the Database itself never touches
server == <<queue, task>>

NoFiles == [t \in {} |-> << >>]

NoItem == [c \in {} |-> Null]

NoPending == [table |-> "", key |-> Null, length |-> 0, item |-> NoItem]

\* the filter of a response to another operation than filter_item
NoFilter == [kind |-> "none", column |-> "", operator |-> "", value |-> Null, subs |-> << >>]

Response(op, table, key, status, found, record, records) ==
    [op |-> op, table |-> table, key |-> key, item |-> NoItem, filter |-> NoFilter,
     status |-> status, found |-> found, record |-> record, records |-> records,
     size |-> 0]

Status(op, table, key, status) ==
    Response(op, table, key, status, FALSE, EmptyRecord, << >>)

\* what put_item returns for `item`
PutStatus(table, item, status) ==
    [Status("put_item", table, Null, status) EXCEPT !.item = item]

\* the handler tasks of the server
Tasks == {1, 2, 3}

\* a request of the server's API: the handler's name and the command
Request(op, table, def, item, key, filter) ==
    [op |-> op, table |-> table, def |-> def, item |-> item, key |-> key,
     filter |-> filter]

NoRequest ==
    Request("", "", TableDefinition("", << >>, ""), NoItem, Null, NoFilter)

\* a task with no request
NoTask == [state |-> "none", request |-> NoRequest]

\* Database::new on an empty directory
Init ==
    /\ files = NoFiles
    /\ catalog_file = << >>
    /\ opened = [h \in Handles |-> h = 1]
    /\ tables = [h \in Handles |-> << >>]
    /\ byte_offset = [t \in TableNames |-> 0]
    /\ pc = [h \in Handles |-> "idle"]
    /\ pending = [h \in Handles |-> NoPending]
    /\ result = Status("new", "", Null, "Ok")
    /\ puts = [t \in TableNames |-> << >>]
    /\ lost = {}
    /\ queue = << >>
    /\ task = [t \in Tasks |-> NoTask]

Idle(h) == opened[h] /\ pc[h] = "idle"

\* the number of complete frames of a file
Frames(file) == Len(get_stream_with_length(file))

(***************************************************************************)
(* DDL.                                                                    *)
(***************************************************************************)
\* create_table_on_disk: [status, fs]; the file is created empty
create_table_on_disk(fs, name) ==
    IF name \in DOMAIN fs THEN [status |-> "InternalError", fs |-> fs]
    ELSE [status |-> "Ok", fs |-> (name :> << >>) @@ fs]

\* Catalog::add_table after Table::new gave t
PushTable(tabs, t) ==
    IF t.status # "Ok"
    THEN [status |-> "CatalogError", tables |-> tabs, byte_offset |-> 0]
    ELSE [status |-> "Ok", tables |-> Append(tabs, t.table), byte_offset |-> t.byte_offset]

\* Catalog::add_table: [status, tables, byte_offset]; the table is pushed,
\* then the catalog is flushed
add_table(tabs, table_def, fs) ==
    PushTable(tabs, Table_new(table_def, fs))

\* a retain that keeps every table
retain_others_all(tabs, table_name) == tabs

\* Catalog::drop_table's retain
retain_others(tabs, table_name) == SelectSeq(tabs, LAMBDA t : t.name # table_name)

\* ddl::create_table
CreateTable(h, def) ==
    /\ Idle(h)
    /\ IF has_table(tables[h], def.name)
       THEN /\ result' = Status("create_table", def.name, Null, "TableAlreadyExists")
            /\ UNCHANGED <<files, catalog_file, tables, byte_offset, puts>>
       ELSE \E disk \in {create_table_on_disk(files, def.name)} :
            IF disk.status # "Ok"
            THEN /\ result' = Status("create_table", def.name, Null, disk.status)
                 /\ UNCHANGED <<files, catalog_file, tables, byte_offset, puts>>
            ELSE \E added \in {add_table(tables[h], def, disk.fs)} :
                 /\ files' = disk.fs
                 /\ result' = Status("create_table", def.name, Null, added.status)
                 /\ IF added.status # "Ok"
                    THEN UNCHANGED <<catalog_file, tables, byte_offset, puts>>
                    ELSE /\ tables' = [tables EXCEPT ![h] = added.tables]
                         /\ byte_offset' = [byte_offset EXCEPT ![def.name] = added.byte_offset]
                         /\ catalog_file' = <<SerializableCatalog(added.tables)>>
                         /\ puts' = [puts EXCEPT ![def.name] = << >>]
    /\ UNCHANGED <<opened, pc, pending, lost>>

\* ddl::drop_table: the file is deleted, the table leaves the catalog, the
\* catalog is flushed
DropTable(h, table_name) ==
    /\ Idle(h)
    /\ IF ~has_table(tables[h], table_name)
       THEN /\ result' = Status("drop_table", table_name, Null, "TableNotFound")
            /\ UNCHANGED <<files, catalog_file, tables, byte_offset, puts, lost>>
       ELSE /\ files' = [t \in DOMAIN files \ {table_name} |-> files[t]]
            /\ tables' = [tables EXCEPT ![h] = retain_others(tables[h], table_name)]
            /\ catalog_file' = <<SerializableCatalog(retain_others(tables[h], table_name))>>
            /\ byte_offset' = [byte_offset EXCEPT ![table_name] = 0]
            /\ puts' = [puts EXCEPT ![table_name] = << >>]
            /\ lost' = {l \in lost : l.table # table_name}
            /\ result' = Status("drop_table", table_name, Null, "Ok")
    /\ UNCHANGED <<opened, pc, pending>>

(***************************************************************************)
(* DML.                                                                    *)
(***************************************************************************)
\* an update that lands in the first table of the catalog, whatever the name
UpdateIndex_first(tabs, table_name, new_index) ==
    [i \in 1..Len(tabs) |->
        IF i = 1 THEN [tabs[i] EXCEPT !.index = new_index] ELSE tabs[i]]

\* TableBuffer::write's second half on the table of a catalog: the index of
\* `table_name` after Index::update
UpdateIndex(tabs, table_name, new_index) ==
    [i \in 1..Len(tabs) |->
        IF i = TablePosition(tabs, table_name)
        THEN [tabs[i] EXCEPT !.index = new_index] ELSE tabs[i]]

\* put_item up to the end of Block::write inside TableBuffer::write: the
\* validation, then the append of the frame
PutItemAppend(h, table_name, item) ==
    /\ Idle(h)
    /\ \E status \in put_item_check(tables[h], table_name, item) :
        IF status # "Ok"
        THEN /\ result' = PutStatus(table_name, item, status)
             /\ UNCHANGED <<files, pc, pending>>
        ELSE IF table_name \notin DOMAIN files
        THEN /\ result' = PutStatus(table_name, item, "InternalError")
             /\ UNCHANGED <<files, pc, pending>>
        ELSE \E table \in {get_table(tables[h], table_name)} :
             \E written \in {Block_write(files[table_name],
                                         item_to_tuple(item, table.columns))} :
                 /\ Frames(files[table_name]) < MaxFrames
                 /\ files' = [files EXCEPT ![table_name] = written.file]
                 /\ pc' = [pc EXCEPT ![h] = "appended"]
                 /\ pending' = [pending EXCEPT ![h] =
                        [table |-> table_name, key |-> item[table.primary_key],
                         length |-> written.length, item |-> item]]
                 /\ UNCHANGED result
    /\ UNCHANGED <<catalog_file, opened, tables, byte_offset, puts, lost>>

\* the rest of TableBuffer::write: Index::update under the cursor's lock, and
\* put_item returns
PutItemIndex(h) ==
    /\ opened[h] /\ pc[h] = "appended"
    /\ \E w \in {pending[h]} :
       \E u \in {Index_update(get_table(tables[h], w.table).index, byte_offset[w.table],
                              w.key, w.length)} :
           /\ tables' = [tables EXCEPT ![h] = UpdateIndex(tables[h], w.table, u.index)]
           /\ byte_offset' = [byte_offset EXCEPT ![w.table] = u.byte_offset]
           /\ puts' = [puts EXCEPT ![w.table] = Append(@, <<w.key, w.item>>)]
           /\ result' = PutStatus(w.table, w.item, "Ok")
    /\ pc' = [pc EXCEPT ![h] = "idle"]
    /\ pending' = [pending EXCEPT ![h] = NoPending]
    /\ UNCHANGED <<files, catalog_file, opened, lost>>

\* Database::get_item: scan_file is false
GetItem(h, table_name, key) ==
    /\ Idle(h)
    /\ \E r \in {Database_get_item(tables[h], files, table_name, key)} :
       result' = Response("get_item", table_name, key, r.status, r.found, r.record, << >>)
    /\ UNCHANGED <<files, catalog_file, opened, tables, byte_offset, pc, pending, puts, lost>>

\* Database::filter_item
FilterItem(h, table_name, filter) ==
    /\ Idle(h)
    /\ \E r \in {filter_item(tables[h], files, table_name, filter)} :
       result' = [Response("filter_item", table_name, Null, r.status, FALSE, EmptyRecord,
                           r.records) EXCEPT !.filter = filter]
    /\ UNCHANGED <<files, catalog_file, opened, tables, byte_offset, pc, pending, puts, lost>>

\* Database::get_size: None when there is no such table
GetSize(h, table_name) ==
    /\ Idle(h)
    /\ result' = [Response("get_size", table_name, Null, "Ok",
                           has_table(tables[h], table_name), EmptyRecord, << >>)
                  EXCEPT !.size = get_table_size(tables[h], table_name)]
    /\ UNCHANGED <<files, catalog_file, opened, tables, byte_offset, pc, pending, puts, lost>>

(***************************************************************************)
(* The life of the process: close, stop inside a write, open again.        *)
(***************************************************************************)
\* the Database value is dropped between two operations
Close(h) ==
    /\ Idle(h)
    /\ opened' = [opened EXCEPT ![h] = FALSE]
    /\ tables' = [tables EXCEPT ![h] = << >>]
    /\ byte_offset' = [t \in TableNames |-> 0]
    /\ result' = Status("close", "", Null, "Ok")
    /\ UNCHANGED <<files, catalog_file, pc, pending, puts, lost>>

\* the process stops between Block::write and Index::update
Crash(h) ==
    /\ opened[h] /\ pc[h] = "appended"
    /\ opened' = [g \in Handles |-> FALSE]
    /\ tables' = [g \in Handles |-> << >>]
    /\ byte_offset' = [t \in TableNames |-> 0]
    /\ pc' = [g \in Handles |-> "idle"]
    /\ pending' = [g \in Handles |-> NoPending]
    /\ lost' = lost \cup
          {[table |-> pending[h].table, key |-> pending[h].key, item |-> pending[h].item,
            offset |-> Len(files[pending[h].table])
                       - LENGTH_PREFIX_SIZE - pending[h].length]}
    /\ result' = Status("crash", pending[h].table, pending[h].key, "Stopped")
    /\ UNCHANGED <<files, catalog_file, puts>>

\* Database::new over the directory as it is
Open(h) ==
    /\ \A g \in Handles : ~opened[g]
    /\ \E c \in {Catalog_new(catalog_file, files)} :
       IF c.status # "Ok"
       THEN /\ result' = Status("new", "", Null, "CatalogError")
            /\ UNCHANGED <<opened, tables, byte_offset>>
       ELSE /\ opened' = [opened EXCEPT ![h] = TRUE]
            /\ tables' = [tables EXCEPT ![h] = c.tables]
            /\ byte_offset' = [t \in TableNames |->
                  IF \E o \in c.offsets : o[1] = t
                  THEN (CHOOSE o \in c.offsets : o[1] = t)[2] ELSE 0]
            /\ result' = Status("new", "", Null, "Ok")
    /\ UNCHANGED <<files, catalog_file, pc, pending, puts, lost>>

(***************************************************************************)
(* Spec: one Database value over one directory.                            *)
(***************************************************************************)
Next ==
    \/ \E def \in Definitions : CreateTable(1, def) /\ UNCHANGED server
    \/ \E t \in TableNames : DropTable(1, t) /\ UNCHANGED server
    \/ \E t \in TableNames : \E item \in ItemsFor(t) :
            PutItemAppend(1, t, item) /\ UNCHANGED server
    \/ PutItemIndex(1) /\ UNCHANGED server
    \/ \E t \in TableNames, key \in Keys : GetItem(1, t, key) /\ UNCHANGED server
    \/ \E t \in TableNames, f \in Filters : FilterItem(1, t, f) /\ UNCHANGED server
    \/ \E t \in TableNames : GetSize(1, t) /\ UNCHANGED server
    \/ Close(1) /\ UNCHANGED server
    \/ Crash(1) /\ UNCHANGED server
    \/ Open(1) /\ UNCHANGED server

Spec == Init /\ [][Next]_vars

(***************************************************************************)
(* Properties of Spec.                                                     *)
(***************************************************************************)
RECURSIVE SumLengths(_, _)
\* the bytes the first n frames of a stream take in the file
SumLengths(stream, n) ==
    IF n = 0 THEN 0
    ELSE SumLengths(stream, n - 1) + LENGTH_PREFIX_SIZE + stream[n].length

\* the byte offset at which frame n + 1 of a file starts
StreamOffset(file, n) == SumLengths(get_stream_with_length(file), n)

\* the definitions catalog.json holds
StoredDefinitions == IF catalog_file = << >> THEN << >> ELSE catalog_file[1]

\* the primary-key fields of the frames a reader gives, in file order
KeysOf(reader, pk_position) ==
    [i \in 1..Len(reader) |->
        IF reader[i].ok /\ pk_position \in 1..Len(reader[i].tuple)
        THEN reader[i].tuple[pk_position] ELSE Null]

KeyFields(file, pk_position) == KeysOf(get_reader(file), pk_position)

NoRepeat(keys) == \A i, j \in 1..Len(keys) : keys[i] = keys[j] => i = j

\* C1: primary-key uniqueness.  In every state reached from the empty
\* directory, whether a Database is open, inside a write, or closed, the log
\* of every table of the catalog has no two frames whose primary-key field
\* holds the same value.
PrimaryKeyUnique ==
    \A d \in 1..Len(StoredDefinitions) :
        StoredDefinitions[d].name \in DOMAIN files =>
            NoRepeat(KeyFields(files[StoredDefinitions[d].name],
                               Position(StoredDefinitions[d].columns,
                                        StoredDefinitions[d].primary_key)))

\* a put_item of a stored key was refused on a log of two frames
PrimaryKeyUniqueWitness ==
    /\ result.op = "put_item"
    /\ result.status = "PrimaryKeyAlreadyExists"
    /\ result.table \in DOMAIN files
    /\ Frames(files[result.table]) = 2

ExpectedRecord(columns, item) ==
    [c \in {columns[i].name : i \in 1..Len(columns)} |->
        IF c \in DOMAIN item THEN item[c] ELSE Null]

\* get_item gives the expected record for every put of the history of a table
ReadsBack(table, history) ==
    \A i \in 1..Len(history) :
        get_item(tables[1], files, table.name, history[i][1], FALSE)
            = [status |-> "Ok", found |-> TRUE,
               record |-> ExpectedRecord(table.columns, history[i][2])]

\* C3: read-your-writes.  Between operations of an open Database, for every
\* put_item that succeeded on a table not dropped since, get_item of its key
\* returns a record holding the supplied value for every supplied column and
\* null for every other column of the schema.
ReadYourWrites ==
    Idle(1) => \A i \in 1..Len(tables[1]) : ReadsBack(tables[1][i], puts[tables[1][i].name])

\* every key of the index of `table` leads to a complete frame with that key
OffsetsLead(table, file) ==
    \A key \in DOMAIN table.index :
        /\ table.index[key] \in {StreamOffset(file, n) : n \in 0..(Frames(file) - 1)}
        /\ seek_to_offset(file, table.index[key]).ok
        /\ seek_to_offset(file, table.index[key]).tuple[table.pk_position] = key

\* C4: index-offset invariant.  In every state of an open Database, the
\* state between the append and the index update of a write included, every
\* key of a table's index maps to the byte offset where a complete frame of
\* the table's log starts, and that frame's primary-key field equals the key.
IndexOffsetInvariant ==
    opened[1] => \A i \in 1..Len(tables[1]) :
        /\ tables[1][i].name \in DOMAIN files
        /\ OffsetsLead(tables[1][i], files[tables[1][i].name])

\* a second frame is appended and not yet indexed, the first key is indexed
IndexOffsetInvariantWitness ==
    /\ pc[1] = "appended"
    /\ Frames(files[pending[1].table]) = 2
    /\ Cardinality(DOMAIN get_table(tables[1], pending[1].table).index) = 1

\* C5: cursor invariant.  After TableBuffer::new and after every completed
\* write (the Database is open and in no write), each table's cursor equals
\* the byte length of its log, which is the sum of 8 plus the payload length
\* over its frames; it is 0 on an empty log, and the key of the first frame
\* is indexed at offset 0.
CursorInvariant ==
    Idle(1) => \A i \in 1..Len(tables[1]) :
        /\ byte_offset[tables[1][i].name] = Len(files[tables[1][i].name])
        /\ Len(files[tables[1][i].name])
             = StreamOffset(files[tables[1][i].name], Frames(files[tables[1][i].name]))
        /\ files[tables[1][i].name] = << >> => byte_offset[tables[1][i].name] = 0
        /\ files[tables[1][i].name] # << >> =>
             tables[1][i].index[KeyFields(files[tables[1][i].name],
                                          tables[1][i].pk_position)[1]] = 0

\* two writes completed on a table whose frames differ in length
CursorInvariantWitness ==
    /\ Idle(1)
    /\ result.op = "put_item" /\ result.status = "Ok"
    /\ Frames(files[result.table]) = 2
    /\ get_stream_with_length(files[result.table])[1].length
         # get_stream_with_length(files[result.table])[2].length
    /\ byte_offset[result.table] = Len(files[result.table])

\* the cursors a replay gives equal the cursors in memory
SameCursors(offsets) == \A o \in offsets : byte_offset[o[1]] = o[2]

\* what a Database opened now over the directory would hold equals `tabs`
ReplayGives(c, tabs) == c.status = "Ok" /\ c.tables = tabs /\ SameCursors(c.offsets)

\* C6: replay idempotence.  Whenever the Database is open and in no
\* operation, opening the directory again gives, for every table, the index
\* the Database has in memory (the same keys at the same offsets, so the same
\* get and contains_key results) and the same cursor.  Opening changes
\* nothing in the directory, so a second opening gives what the first gave.
ReplayIdempotent ==
    Idle(1) => ReplayGives(Catalog_new(catalog_file, files), tables[1])

\* a Database opened over a table of two records, after a close
ReplayIdempotentWitness ==
    /\ Idle(1)
    /\ result.op = "new"
    /\ lost = {}
    /\ \E i \in 1..Len(tables[1]) : Cardinality(DOMAIN tables[1][i].index) = 2

\* a write cut off before its index update is found again by the open Database
Recovered(l) ==
    /\ has_table(tables[1], l.table)
    /\ contains_key(get_table(tables[1], l.table).index, l.key)
    /\ get_table(tables[1], l.table).index[l.key] = l.offset
    /\ seek_to_offset(files[l.table], l.offset)
         = [ok |-> TRUE,
            tuple |-> item_to_tuple(l.item, get_table(tables[1], l.table).columns)]
    /\ Idle(1) => byte_offset[l.table] = Len(files[l.table])
    /\ get_item(tables[1], files, l.table, l.key, FALSE)
         = [status |-> "Ok", found |-> TRUE,
            record |-> build_record(get_table(tables[1], l.table).columns,
                           item_to_tuple(l.item, get_table(tables[1], l.table).columns))]
    /\ put_item_check(tables[1], l.table, l.item) = {"PrimaryKeyAlreadyExists"}

\* C7: crash recovery.  When the process stopped after TableBuffer::write
\* appended a complete frame and before the index update, every Database
\* opened afterwards has that frame's key indexed at the frame's start
\* offset and a cursor equal to the file length; get_item returns the
\* frame's record and a put_item of the same key returns
\* PrimaryKeyAlreadyExists (as long as the table is not dropped).
CrashRecovery == opened[1] => \A l \in lost : Recovered(l)

\* the second write of a table was cut off, the Database was opened again,
\* and a put_item of the cut-off key was refused
CrashRecoveryWitness ==
    /\ Idle(1)
    /\ result.op = "put_item" /\ result.status = "PrimaryKeyAlreadyExists"
    /\ \E l \in lost :
        /\ l.table = result.table
        /\ l.key = result.item["id"]
        /\ l.offset > 0

RECURSIVE Satisfies(_, _, _)
\* whether a tuple satisfies an expression, as C10 reads it: a comparison
\* holds when the column has a value and the operator holds between that
\* value and the given one
Satisfies(columns, e, tuple) ==
    CASE e.kind = "cmp" ->
            /\ Position(columns, e.column) \in 1..Len(tuple)
            /\ tuple[Position(columns, e.column)] # Null
            /\ evaluate_binary_operator(e.operator, tuple[Position(columns, e.column)],
                                        e.value)
      [] e.kind = "and" -> \A i \in 1..Len(e.subs) : Satisfies(columns, e.subs[i], tuple)
      [] e.kind = "or" -> \E i \in 1..Len(e.subs) : Satisfies(columns, e.subs[i], tuple)
      [] OTHER -> ~Satisfies(columns, e.subs[1], tuple)

RECURSIVE MatchingFrom(_, _, _)
\* the records of the frames that satisfy e, one per frame, in file order
MatchingFrom(reader, columns, e) ==
    IF reader = << >> THEN << >>
    ELSE (IF Satisfies(columns, e, reader[1].tuple)
          THEN <<build_record(columns, reader[1].tuple)>> ELSE << >>)
         \o MatchingFrom(Tail(reader), columns, e)

\* C10: filter_item(table, e) on a table of the catalog returns exactly one
\* record for every frame of the table's log whose tuple satisfies e, and no
\* other record.  (The Database is in no operation and its last response is
\* that of a filter_item: the log is the one filter_item read.)
FilterExact ==
    (Idle(1) /\ result.op = "filter_item" /\ has_table(tables[1], result.table)) =>
        /\ result.status = "Ok"
        /\ result.records
             = MatchingFrom(get_reader(files[result.table]),
                            get_table(tables[1], result.table).columns, result.filter)

\* the rows of a table: the record of every frame of its log, in file order
AllRows(reader, columns) ==
    [i \in 1..Len(reader) |-> build_record(columns, reader[i].tuple)]

\* filter_item with the four filters made of an empty connective, on a table
\* whose rows are `rows`
EmptyConnectivesOn(table_name, rows) ==
    /\ filter_item(tables[1], files, table_name, And(<< >>))
         = [status |-> "Ok", records |-> rows]
    /\ filter_item(tables[1], files, table_name, Or(<< >>))
         = [status |-> "Ok", records |-> << >>]
    /\ filter_item(tables[1], files, table_name, Not(And(<< >>)))
         = [status |-> "Ok", records |-> << >>]
    /\ filter_item(tables[1], files, table_name, Not(Or(<< >>)))
         = [status |-> "Ok", records |-> rows]

\* C11: empty connectives.  On every table of an open Database in no
\* operation, whatever its rows, filter_item(And([])) returns all the rows
\* (as many as get_size counts) and filter_item(Or([])) returns none;
\* Not(And([])) returns none and Not(Or([])) returns all.
EmptyConnectives ==
    Idle(1) => \A i \in 1..Len(tables[1]) :
        /\ EmptyConnectivesOn(tables[1][i].name,
                AllRows(get_reader(files[tables[1][i].name]), tables[1][i].columns))
        /\ Len(get_reader(files[tables[1][i].name])) = size(tables[1][i].index)

\* filter_item(Not(Or([]))) returned the two rows of a table
EmptyConnectivesWitness ==
    /\ Idle(1)
    /\ result.op = "filter_item" /\ result.filter = Not(Or(<< >>))
    /\ result.status = "Ok"
    /\ Len(result.records) = 2
    /\ size(get_table(tables[1], result.table).index) = 2

\* the writes of a table that a stop of the process cut off after the append
LostOf(table_name) == {l \in lost : l.table = table_name}

\* C12: get_size.  get_size(table) returns None when the catalog has no
\* such table.  Otherwise it returns the number of keys of the table's
\* index, and after any sequence of operations, close and reopen included,
\* that number is the number of put_item calls on the table that succeeded
\* since it was created.  (Where the process was stopped inside a write, the
\* frame that write appended is counted as well once the directory is
\* opened again.)
SizeCountsPuts ==
    /\ Idle(1) => \A t \in TableNames :
          has_table(tables[1], t) =>
              /\ get_table_size(tables[1], t) = size(get_table(tables[1], t).index)
              /\ get_table_size(tables[1], t) = Len(puts[t]) + Cardinality(LostOf(t))
              /\ LostOf(t) = {} => get_table_size(tables[1], t) = Len(puts[t])
    /\ (Idle(1) /\ result.op = "get_size") =>
          /\ result.found = has_table(tables[1], result.table)
          /\ result.found =>
                /\ result.size = size(get_table(tables[1], result.table).index)
                /\ result.size = Len(puts[result.table])
                                  + Cardinality(LostOf(result.table))

\* get_size returned 2 for a table after two put_item calls succeeded and no
\* write was cut off, while the other table of the catalog has another
\* number of rows
SizeCountsPutsWitness ==
    /\ Idle(1)
    /\ result.op = "get_size" /\ result.found /\ result.size = 2
    /\ Len(puts[result.table]) = 2
    /\ lost = {}
    /\ Len(tables[1]) = 2
    /\ size(tables[1][1].index) # size(tables[1][2].index)

\* no two entries of a list of tables or definitions have the same name
DistinctNames(list) == \A i, j \in 1..Len(list) : list[i].name = list[j].name => i = j

\* Catalog::add_table called with the definition of a registered table
\* registers it a second time
AddTableUnchecked(tabs, fs) ==
    \A i \in 1..Len(tabs) :
        /\ add_table(tabs, TableDefinitionOf(tabs[i]), fs).status = "Ok"
        /\ ~DistinctNames(add_table(tabs, TableDefinitionOf(tabs[i]), fs).tables)

\* C13: create_table with a registered name.  Every create_table whose name
\* is the name of a table of the catalog returns TableAlreadyExists and
\* leaves the table list, catalog.json, every file (so the existing table's
\* rows), every index and every cursor as they were.  In every state the
\* catalog in memory and catalog.json hold no two tables of one name, while
\* Catalog::add_table called directly would register the name twice.
CreateExistingRefused ==
    /\ [](DistinctNames(tables[1]) /\ DistinctNames(StoredDefinitions))
    /\ [](Idle(1) => AddTableUnchecked(tables[1], files))
    /\ [][\A def \in Definitions :
            ( /\ result'.op = "create_table"
              /\ \E i \in 1..Len(tables[1]) : tables[1][i].name = def.name
              /\ CreateTable(1, def) )
            => /\ result' = Status("create_table", def.name, Null, "TableAlreadyExists")
               /\ tables' = tables
               /\ catalog_file' = catalog_file
               /\ files' = files
               /\ byte_offset' = byte_offset
               /\ puts' = puts]_vars

\* a create_table was refused for the name of a table that has a row, in a
\* catalog of two tables
CreateExistingRefusedWitness ==
    /\ Idle(1)
    /\ result.op = "create_table" /\ result.status = "TableAlreadyExists"
    /\ Len(tables[1]) = 2
    /\ has_table(tables[1], result.table)
    /\ size(get_table(tables[1], result.table).index) >= 1

\* the catalog `tabs` over the directory `fs` knows no table `table_name`:
\* list_tables does not name it, get_size is None, and put_item, get_item and
\* filter_item return TableNotFound whatever their other arguments
Unknown(tabs, fs, table_name) ==
    /\ \A i \in 1..Len(list_tables(tabs)) : list_tables(tabs)[i] # table_name
    /\ ~has_table(tabs, table_name) /\ get_table_size(tabs, table_name) = 0
    /\ \A item \in Items : put_item_check(tabs, table_name, item) = {"TableNotFound"}
    /\ \A key \in Keys : get_item(tabs, fs, table_name, key, FALSE).status = "TableNotFound"
    /\ \A f \in Filters : filter_item(tabs, fs, table_name, f).status = "TableNotFound"

\* the responses of the operations on a table the catalog does not have
UnknownAnswered ==
    (Idle(1) /\ ~has_table(tables[1], result.table)) =>
        /\ result.op \in {"put_item", "get_item", "filter_item"}
              => result.status = "TableNotFound"
        /\ result.op = "get_size" => ~result.found

\* C14: drop_table.  A drop_table of a name the catalog does not have
\* returns TableNotFound and changes nothing.  Otherwise it returns Ok, the
\* table is gone from the catalog in memory, its file is deleted, and
\* catalog.json is rewritten with the tables that remain, the other tables
\* and their files untouched; from then on list_tables does not name the
\* table, get_size returns None, and put_item, get_item and filter_item on
\* it return TableNotFound.
DropTableRemoves ==
    /\ [](UnknownAnswered)
    /\ [][\A t \in TableNames :
            (result'.op = "drop_table" /\ result'.table = t /\ DropTable(1, t)) =>
            IF \A i \in 1..Len(tables[1]) : tables[1][i].name # t
            THEN /\ result' = Status("drop_table", t, Null, "TableNotFound")
                 /\ tables' = tables /\ files' = files /\ catalog_file' = catalog_file
            ELSE /\ result' = Status("drop_table", t, Null, "Ok")
                 /\ t \notin DOMAIN files'
                 /\ \A u \in DOMAIN files \ {t} : u \in DOMAIN files' /\ files'[u] = files[u]
                 /\ Len(tables'[1]) = Len(tables[1]) - 1
                 /\ \A i \in 1..Len(tables[1]) :
                        tables[1][i].name # t =>
                            \E j \in 1..Len(tables'[1]) : tables'[1][j] = tables[1][i]
                 /\ catalog_file' = <<SerializableCatalog(tables'[1])>>
                 /\ Unknown(tables'[1], files', t)
                 /\ Unknown(Catalog_new(catalog_file', files').tables, files', t)]_vars

\* a table with a row was dropped from a catalog of two tables; the other
\* table, which has a row too, remains
DropTableRemovesWitness ==
    /\ Idle(1)
    /\ result.op = "drop_table" /\ result.status = "Ok"
    /\ result.table \notin DOMAIN files
    /\ Len(tables[1]) = 1
    /\ size(tables[1][1].index) >= 1
    /\ StoredDefinitions = SerializableCatalog(tables[1])

\* the columns of an item that the schema does not have
UnknownColumns(columns, item) ==
    {c \in DOMAIN item : \A i \in 1..Len(columns) : columns[i].name # c}

\* the columns of an item whose value is not of the type the schema declares
\* (the declaration looked up is the first of that name)
MistypedColumns(columns, item) ==
    {c \in DOMAIN item :
        \E i \in 1..Len(columns) :
            /\ columns[i].name = c
            /\ \A j \in 1..(i - 1) : columns[j].name # c
            /\ columns[i].type # item[c].tag}

\* what C15 says a put_item step on `table` does with `item`
ClassifiedOn(table, item) ==
    IF table.primary_key \notin DOMAIN item
    THEN result' = PutStatus(table.name, item, "ItemMustContainPrimaryKey")
    ELSE IF item[table.primary_key] \in DOMAIN table.index
    THEN result' = PutStatus(table.name, item, "PrimaryKeyAlreadyExists")
    ELSE IF UnknownColumns(table.columns, item) \cup MistypedColumns(table.columns, item) # {}
    THEN \/ /\ result' = PutStatus(table.name, item, "UnknownColumnInItem")
            /\ UnknownColumns(table.columns, item) # {}
         \/ /\ result' = PutStatus(table.name, item, "ColumnTypeMismatch")
            /\ MistypedColumns(table.columns, item) # {}
    ELSE /\ pc'[1] = "appended"
         /\ pending'[1].table = table.name /\ pending'[1].item = item

\* a put_item answered Ok had an item with its primary key, only columns of
\* the schema and values of the declared types, on a table of the catalog
OkWasValid ==
    (Idle(1) /\ result.op = "put_item" /\ result.status = "Ok") =>
        /\ has_table(tables[1], result.table)
        /\ get_table(tables[1], result.table).primary_key \in DOMAIN result.item
        /\ UnknownColumns(get_table(tables[1], result.table).columns, result.item) = {}
        /\ MistypedColumns(get_table(tables[1], result.table).columns, result.item) = {}

\* C15: the order of put_item's checks.  Every put_item returns
\* TableNotFound when the catalog has no such table; else
\* ItemMustContainPrimaryKey when the item has no value for the primary-key
\* column; else PrimaryKeyAlreadyExists when that value is indexed; else
\* UnknownColumnInItem for a supplied column the schema lacks or
\* ColumnTypeMismatch for a supplied value of another type than declared;
\* it goes on to write, and is answered Ok, only when none of these applies.
PutItemClassified ==
    /\ [](OkWasValid)
    /\ [][\A t \in TableNames : \A item \in ItemsFor(t) :
            ( /\ pc[1] = "idle"
              /\ pc'[1] = "appended" \/ (result'.op = "put_item" /\ result'.item = item)
              /\ PutItemAppend(1, t, item) )
            => IF \A i \in 1..Len(tables[1]) : tables[1][i].name # t
               THEN result' = PutStatus(t, item, "TableNotFound")
               ELSE \E i \in 1..Len(tables[1]) :
                        /\ tables[1][i].name = t
                        /\ ClassifiedOn(tables[1][i], item)]_vars

\* an item with an ill-typed value and an unknown column, whose key is not
\* stored, was refused for the type on a table that has a row
PutItemClassifiedWitness ==
    /\ Idle(1)
    /\ result.op = "put_item" /\ result.status = "ColumnTypeMismatch"
    /\ "zip" \in DOMAIN result.item
    /\ has_table(tables[1], result.table)
    /\ size(get_table(tables[1], result.table).index) = 1
    /\ ~contains_key(get_table(tables[1], result.table).index, result.item["id"])

\* the errors put_item's validation returns
Refusals ==
    {"TableNotFound", "ItemMustContainPrimaryKey", "PrimaryKeyAlreadyExists",
     "UnknownColumnInItem", "ColumnTypeMismatch"}

\* none of put_item's five errors applies to `item` on the catalog
PassesValidation(tabs, table_name, item) ==
    \E i \in 1..Len(tabs) :
        /\ tabs[i].name = table_name
        /\ tabs[i].primary_key \in DOMAIN item
        /\ item[tabs[i].primary_key] \notin DOMAIN tabs[i].index
        /\ UnknownColumns(tabs[i].columns, item) = {}
        /\ MistypedColumns(tabs[i].columns, item) = {}

\* C16: a refused put_item changes nothing.  A put_item that returns
\* TableNotFound, ItemMustContainPrimaryKey, PrimaryKeyAlreadyExists,
\* UnknownColumnInItem or ColumnTypeMismatch leaves every log file, every
\* index, every cursor and catalog.json as they were; a put_item step that
\* appends to a log is the step of an item that none of the five errors
\* applies to, and once it has appended it returns Ok.
RefusedPutChangesNothing ==
    /\ [][\A t \in TableNames : \A item \in ItemsFor(t) :
            ( /\ pc[1] = "idle"
              /\ pc'[1] = "appended" \/ (result'.op = "put_item" /\ result'.item = item)
              /\ PutItemAppend(1, t, item) )
            => IF PassesValidation(tables[1], t, item)
               THEN /\ pc'[1] = "appended"
                    /\ \A u \in DOMAIN files \ {t} : files'[u] = files[u]
                    /\ SubSeq(files'[t], 1, Len(files[t])) = files[t]
                    /\ tables' = tables /\ byte_offset' = byte_offset
               ELSE /\ result'.status \in Refusals
                    /\ files' = files
                    /\ tables' = tables
                    /\ byte_offset' = byte_offset
                    /\ catalog_file' = catalog_file
                    /\ pc' = pc /\ pending' = pending /\ puts' = puts]_vars
    /\ [][(pc[1] = "appended" /\ PutItemIndex(1))
            => result' = PutStatus(pending[1].table, pending[1].item, "Ok")]_vars

\* a put_item without the primary key was refused on a table of two rows,
\* whose cursor is at the end of its log
RefusedPutChangesNothingWitness ==
    /\ Idle(1)
    /\ result.op = "put_item" /\ result.status = "ItemMustContainPrimaryKey"
    /\ has_table(tables[1], result.table)
    /\ size(get_table(tables[1], result.table).index) = 2
    /\ byte_offset[result.table] = Len(files[result.table])
    /\ byte_offset[result.table] > 0

\* the keys of the put_item calls that succeeded on a table since it was
\* created, and of the writes cut off after their append and recovered
StoredKeys(table_name) ==
    {puts[table_name][i][1] : i \in 1..Len(puts[table_name])}
        \cup {l.key : l \in LostOf(table_name)}

\* what C17 says of a get_item response r for `key` on `table_name`
Answers(r, table_name, key) ==
    IF \A i \in 1..Len(tables[1]) : tables[1][i].name # table_name
    THEN r.status = "TableNotFound" /\ ~r.found
    ELSE r.status = "Ok" /\ (r.found <=> key \in StoredKeys(table_name))

\* C17: get_item.  Between operations, get_item(table, key) through the
\* Database returns TableNotFound when the catalog has no such table,
\* Ok(None) when the table exists and no put_item of that key succeeded on
\* it, and Ok(Some(record)) exactly when one did (a write cut off after its
\* append and recovered at reopen counts).  The Database never scans the
\* log: for a key whose frame is appended and not yet indexed it returns
\* None, where a get_item with scan_file set finds the frame.
GetItemAnswers ==
    /\ Idle(1) => \A t \in TableNames, key \in Keys :
          Answers(Database_get_item(tables[1], files, t, key), t, key)
    /\ (Idle(1) /\ result.op = "get_item") => Answers(result, result.table, result.key)
    /\ (opened[1] /\ pc[1] = "appended") =>
          /\ Database_get_item(tables[1], files, pending[1].table, pending[1].key)
                = [status |-> "Ok", found |-> FALSE, record |-> EmptyRecord]
          /\ get_item(tables[1], files, pending[1].table, pending[1].key, TRUE).found

\* get_item returned None for a key never put, on a table of two rows
GetItemAnswersWitness ==
    /\ Idle(1)
    /\ result.op = "get_item" /\ result.status = "Ok" /\ ~result.found
    /\ has_table(tables[1], result.table)
    /\ size(get_table(tables[1], result.table).index) = 2
    /\ result.key \notin StoredKeys(result.table)

\* `after` is `before` with exactly one whole frame appended at its end
OneFrameAppended(before, after) ==
    /\ Len(after) >= Len(before) + LENGTH_PREFIX_SIZE
    /\ SubSeq(after, 1, Len(before)) = before
    /\ PrefixAt(after, Len(before)) = Len(after) - Len(before) - LENGTH_PREFIX_SIZE
    /\ Frames(after) = Frames(before) + 1
    /\ SubSeq(get_stream_with_length(after), 1, Frames(before))
         = get_stream_with_length(before)

\* C19: append-only log.  In every step of every run, a log file that
\* exists before and after the step is unchanged or has exactly one whole
\* frame appended at its end, its earlier bytes as they were; a file that
\* appears is empty; a file disappears only in a drop_table that returns Ok
\* for that table, which removes the file whole.
AppendOnlyLog ==
    [][/\ \A t \in DOMAIN files :
            IF t \in DOMAIN files'
            THEN files'[t] = files[t] \/ OneFrameAppended(files[t], files'[t])
            ELSE result' = Status("drop_table", t, Null, "Ok")
       /\ \A t \in DOMAIN files' \ DOMAIN files :
            files'[t] = << >> /\ result'.op = "create_table"]_vars

\* a second frame was appended to a log while the other table's log holds a
\* frame
AppendOnlyLogWitness ==
    /\ Idle(1)
    /\ result.op = "put_item" /\ result.status = "Ok"
    /\ DOMAIN files = {"a", "b"}
    /\ Frames(files[result.table]) = 2
    /\ \E t \in DOMAIN files \ {result.table} : Frames(files[t]) = 1

\* name, columns and primary key of the tables of a catalog, in its order
SchemaOf(tabs) ==
    [i \in 1..Len(tabs) |->
        [name |-> tabs[i].name, columns |-> tabs[i].columns,
         primary_key |-> tabs[i].primary_key]]

\* the catalog a Database opened now would have is `tabs` as far as names,
\* columns and primary keys go
ReopensAs(c, tabs) ==
    /\ c.status = "Ok"
    /\ list_tables(c.tables) = list_tables(tabs)
    /\ SchemaOf(c.tables) = SchemaOf(tabs)

\* catalog.json `cfile` holds exactly the definitions of `tabs`, in order,
\* and opening the directory gives them back
PersistedAs(cfile, tabs, fs) ==
    /\ cfile = <<SchemaOf(tabs)>>
    /\ ReopensAs(Catalog_new(cfile, fs), tabs)

\* C20: schema persistence.  After every create_table and every drop_table
\* that returns Ok, catalog.json holds exactly the definitions (name,
\* columns, primary key) of the tables registered in memory, in the same
\* order, a table created being the last with the definition given; while
\* a Database is open the two agree, and a Database opened over the
\* directory lists the same tables in the same order with the same names,
\* columns and primary keys.
SchemaPersisted ==
    /\ [](opened[1] => StoredDefinitions = SchemaOf(tables[1]))
    /\ [](Idle(1) => ReopensAs(Catalog_new(catalog_file, files), tables[1]))
    /\ [][\A def \in Definitions :
            (result'.op = "create_table" /\ result'.status = "Ok" /\ CreateTable(1, def))
            => /\ PersistedAs(catalog_file', tables'[1], files')
               /\ SchemaOf(tables'[1]) = Append(SchemaOf(tables[1]), def)]_vars
    /\ [][\A t \in TableNames :
            (result'.op = "drop_table" /\ result'.status = "Ok" /\ DropTable(1, t))
            => /\ PersistedAs(catalog_file', tables'[1], files')
               /\ SchemaOf(tables'[1])
                    = SelectSeq(SchemaOf(tables[1]), LAMBDA d : d.name # t)]_vars

\* a Database was opened over a directory of two tables, the first with its
\* primary key in second position
SchemaPersistedWitness ==
    /\ Idle(1)
    /\ result.op = "new"
    /\ Len(StoredDefinitions) = 2
    /\ list_tables(tables[1]) = <<"a", "b">>
    /\ tables[1][1].columns[2].name = tables[1][1].primary_key
    /\ tables[1][1].pk_position = 2

RECURSIVE ComparesNull(_, _, _)
\* the expression holds a comparison on a column of the schema whose value
\* in the tuple is null
ComparesNull(columns, e, tuple) ==
    CASE e.kind = "cmp" ->
            /\ Position(columns, e.column) \in 1..Len(tuple)
            /\ tuple[Position(columns, e.column)] = Null
      [] e.kind = "none" -> FALSE
      [] OTHER -> \E i \in 1..Len(e.subs) : ComparesNull(columns, e.subs[i], tuple)

\* some frame a reader gives has a null where the expression compares
NullCompared(reader, columns, e) ==
    \E i \in 1..Len(reader) : reader[i].ok /\ ComparesNull(columns, e, reader[i].tuple)

\* C21: no panic on a failure path.  Every response of create_table,
\* drop_table, put_item, get_item and filter_item is a result or an error
\* value; an operation ends in a panic only when it is a filter_item whose
\* expression compares a column of the schema with a null value of a frame.
NoPanicButNullComparison ==
    (Idle(1) /\ result.status = "Panic") =>
        /\ result.op = "filter_item"
        /\ has_table(tables[1], result.table)
        /\ NullCompared(get_reader(files[result.table]),
                        get_table(tables[1], result.table).columns, result.filter)

\* the tuple C29 expects for an item: one position per column of the schema,
\* the item's value where the item names the column, null elsewhere
AlignedTuple(item, columns) ==
    [i \in 1..Len(columns) |->
        IF columns[i].name \in DOMAIN item THEN item[columns[i].name] ELSE Null]

\* the tuple of the last frame of a file
LastTuple(file) == get_reader(file)[Frames(file)].tuple

\* every frame of the log of `table` decodes to one position per column
OnePositionPerColumn(table, reader) ==
    \A i \in 1..Len(reader) : reader[i].ok /\ Len(reader[i].tuple) = Len(table.columns)

\* C29: tuples are aligned with the schema.  The frame put_item appends
\* holds one position per column of the schema, in the order of the schema,
\* with the item's value at the position of every column the item names and
\* null at the others; every tuple read back from the log of a table has as
\* many positions as the table has columns.
TuplesAligned ==
    /\ pc[1] = "appended" =>
          LastTuple(files[pending[1].table])
              = AlignedTuple(pending[1].item,
                             get_table(tables[1], pending[1].table).columns)
    /\ opened[1] =>
          \A i \in 1..Len(tables[1]) :
              tables[1][i].name \in DOMAIN files =>
                  OnePositionPerColumn(tables[1][i], get_reader(files[tables[1][i].name]))

\* the places of the frames of a file that no cut-off write left there
PutFrames(file, lost_offsets) ==
    {i \in 1..Frames(file) : StreamOffset(file, i - 1) \notin lost_offsets}

RECURSIVE TuplesAt(_, _, _)
\* the tuples a reader yields at the places of `frames`, from place i on, in
\* the order it yields them
TuplesAt(reader, frames, i) ==
    IF i > Len(reader) THEN << >>
    ELSE (IF i \in frames THEN <<reader[i].tuple>> ELSE << >>)
         \o TuplesAt(reader, frames, i + 1)

\* the tuples of the items put into a table with success, in the order of
\* the puts
TuplesPut(history, columns) ==
    [i \in 1..Len(history) |-> item_to_tuple(history[i][2], columns)]

\* the reader of a table's log yields the tuples put, first put first
ReadInPutOrder(table) ==
    TuplesAt(get_reader(files[table.name]),
             PutFrames(files[table.name], {l.offset : l \in LostOf(table.name)}), 1)
        = TuplesPut(puts[table.name], table.columns)

\* C30: log order is insertion order.  Between operations, a reader of a
\* table's log, started at any time, yields from the first frame on the
\* tuples of the put_item calls that succeeded, in the order in which they
\* succeeded, so the last tuple read is the last one put; and a filter_item
\* that returns returns the records of its matching frames in that order.
\* (A frame left by a write that the process did not survive is read at the
\* place where it was appended.)
LogOrderIsPutOrder ==
    /\ Idle(1) => \A i \in 1..Len(tables[1]) :
          tables[1][i].name \in DOMAIN files => ReadInPutOrder(tables[1][i])
    /\ ( /\ Idle(1) /\ result.op = "filter_item" /\ result.status = "Ok"
          /\ has_table(tables[1], result.table) ) =>
          result.records
              = MatchingFrom(get_reader(files[result.table]),
                             get_table(tables[1], result.table).columns, result.filter)

\* filter_item returned the two rows of a table in the order they were put,
\* the row with the greater key first
LogOrderIsPutOrderWitness ==
    /\ Idle(1) /\ result.op = "filter_item" /\ result.status = "Ok"
    /\ Len(result.records) = 2 /\ lost = {}
    /\ puts[result.table][1][1] = Integer(200) /\ puts[result.table][2][1] = Integer(1)
    /\ result.records[1]["id"] = Integer(200) /\ result.records[2]["id"] = Integer(1)

\* every table of the catalog has its primary key among its columns
RegisteredKeysNamed ==
    \A i \in 1..Len(tables[1]) :
        Position(tables[1][i].columns, tables[1][i].primary_key) # 0

\* the primary key of `def` is none of its columns
KeyNamesNoColumn(def) == Position(def.columns, def.primary_key) = 0

\* create_table(def) would answer Ok on the catalog `tabs` over the directory `fs`
CreateSucceeds(tabs, fs, def) ==
    /\ ~has_table(tabs, def.name)
    /\ create_table_on_disk(fs, def.name).status = "Ok"
    /\ add_table(tabs, def, create_table_on_disk(fs, def.name).fs).status = "Ok"

\* C32: a create_table whose primary key names no column.  Where neither the
\* catalog nor the directory holds the name, the call fails with the
\* catalog's error and leaves the catalog, catalog.json and the directory as
\* they were, so that create_table of the same name with a schema whose key
\* is one of its columns succeeds afterwards; and in every state each table
\* of the catalog has its primary key among its columns.
PrimaryKeyMustBeColumn ==
    /\ []RegisteredKeysNamed
    /\ [][\A def \in Definitions :
            (/\ result'.op = "create_table"
             /\ KeyNamesNoColumn(def)
             /\ ~has_table(tables[1], def.name)
             /\ def.name \notin DOMAIN files
             /\ CreateTable(1, def))
            => /\ result'.status = "CatalogError"
               /\ tables' = tables
               /\ catalog_file' = catalog_file
               /\ files' = files
               /\ \A valid \in Definitions :
                     valid.name = def.name /\ ~KeyNamesNoColumn(valid)
                        => CreateSucceeds(tables[1], files, valid)']_vars

\* the primary keys of the records `records` of `table`
RecordKeys(table, records) ==
    {records[j][table.primary_key] : j \in 1..Len(records)}

\* the keys get_item returns a record for
KeysFound(tabs, fs, table_name) ==
    {key \in Keys : Database_get_item(tabs, fs, table_name, key).found}

\* r, the answer of filter_item(And([])) on `table`, counts and names what
\* the index of the table holds
ScanMatchesIndex(tabs, fs, table, r) ==
    /\ r.status = "Ok"
    /\ Len(r.records) = get_table_size(tabs, table.name)
    /\ RecordKeys(table, r.records) = KeysFound(tabs, fs, table.name)

\* C33: the scan and the index agree.  Whenever an operation can be called,
\* for every table of the catalog the number of records filter_item(And([]))
\* returns is get_size of the table, and the primary keys of those records
\* are the keys get_item returns a record for.
ScanAgreesWithIndex ==
    Idle(1) => \A i \in 1..Len(tables[1]) :
        ScanMatchesIndex(tables[1], files, tables[1][i],
                         filter_item(tables[1], files, tables[1][i].name, And(<< >>)))

\* the table a step of put_item, create_table or drop_table works on
TableOfStep == IF pc'[1] = "appended" THEN pending'[1].table ELSE result'.table

\* the step is one of put_item (either half), create_table or drop_table:
\* the append of a put_item's frame, or a step that returns the response of
\* one of the three (every other operation returns a response of its own)
WritingStep ==
    \/ pc[1] = "idle" /\ pc'[1] = "appended"
    \/ result'.op \in {"put_item", "create_table", "drop_table"}

\* the step leaves table `other` as it was: its file, its entry in the
\* catalog (schema and index), its cursor, and what the readers answer
TableUntouched(other) ==
    /\ (other \in DOMAIN files') = (other \in DOMAIN files)
    /\ other \in DOMAIN files => files'[other] = files[other]
    /\ has_table(tables'[1], other) = has_table(tables[1], other)
    /\ has_table(tables[1], other) =>
          get_table(tables'[1], other) = get_table(tables[1], other)
    /\ byte_offset'[other] = byte_offset[other]
    /\ get_table_size(tables'[1], other) = get_table_size(tables[1], other)
    /\ \A key \in Keys :
          Database_get_item(tables'[1], files', other, key)
            = Database_get_item(tables[1], files, other, key)
    /\ \A f \in {And(<< >>), Comparison("id", "Gt", Integer(1))} :
          filter_item(tables'[1], files', other, f) = filter_item(tables[1], files, other, f)

\* C36: table isolation.  A put_item on one table, and a create_table or
\* drop_table of one table, leave the log file, the index, the cursor and the
\* schema of every other table unchanged, and get_item, filter_item and
\* get_size on the other tables answer what they answered before.
TableIsolation ==
    [][WritingStep => \A other \in TableNames \ {TableOfStep} : TableUntouched(other)]_vars

\* a row was put into table "b" while table "a" held two rows
TableIsolationWitness ==
    /\ result.op = "put_item" /\ result.table = "b" /\ result.status = "Ok"
    /\ Len(puts["b"]) = 1
    /\ get_table_size(tables[1], "a") = 2
    /\ Frames(files["a"]) = 2

(***************************************************************************)
(* SpecClones: two Database values, the second a clone of the first, write *)
(* to one table.  The clones share the table's file handle and cursor      *)
(* (both behind an Arc) and each has its own index map.  Tables are        *)
(* created before the clone is taken.                                      *)
(***************************************************************************)
\* Database::clone (derived): every Table is cloned, its index map copied
CloneDatabase ==
    /\ Idle(1) /\ ~opened[2]
    /\ opened' = [opened EXCEPT ![2] = TRUE]
    /\ tables' = [tables EXCEPT ![2] = tables[1]]
    /\ result' = Status("clone", "", Null, "Ok")
    /\ UNCHANGED <<files, catalog_file, byte_offset, pc, pending, puts, lost>>

\* the schemas of SpecClones: the key in first and in second position
CloneDefinitions ==
    { TableDefinition("a", <<Column("id", "Integer"), Column("name", "Text")>>, "id"),
      TableDefinition("a", <<Column("name", "Text"), Column("id", "Integer")>>, "id") }

NextClones ==
    \/ \E def \in CloneDefinitions : ~opened[2] /\ CreateTable(1, def) /\ UNCHANGED server
    \/ CloneDatabase /\ UNCHANGED server
    \/ \E h \in Handles, item \in ValidItems :
            PutItemAppend(h, "a", item) /\ UNCHANGED server
    \/ \E h \in Handles : PutItemIndex(h) /\ UNCHANGED server
    \/ \E h \in Handles, key \in Keys : GetItem(h, "a", key) /\ UNCHANGED server

SpecClones == Init /\ [][NextClones]_vars

\* C9: append-and-index atomicity.  For writers on one table that share its
\* file handle and cursor, under every interleaving each key an index holds
\* is recorded at the start of its own frame, and once no write is in
\* progress the cursor equals the length of the file.
AppendAndIndexAtomic ==
    \A h \in Handles : opened[h] => \A i \in 1..Len(tables[h]) :
        /\ OffsetsLead(tables[h][i], files[tables[h][i].name])
        /\ (\A g \in Handles : pc[g] = "idle") =>
              byte_offset[tables[h][i].name] = Len(files[tables[h][i].name])

\* the keys of the puts that succeeded on table "a", through either clone
KeysPut == {puts["a"][i][1] : i \in 1..Len(puts["a"])}

\* a put_item through clone h of a key that a put through a clone has stored
\* is refused for its key
StoredKeyRefusedByClones ==
    \A h \in Handles, item \in ValidItems :
        (item["id"] \in KeysPut /\ PutItemAppend(h, "a", item))
            => result' = PutStatus("a", item, "PrimaryKeyAlreadyExists")

\* C35: primary-key uniqueness across clones.  With writes issued through
\* two clones of one Database, the log of the table has no two frames with
\* the same primary-key value, and a put_item of a key already put through
\* either clone is rejected with PrimaryKeyAlreadyExists.
KeysUniqueAcrossClones ==
    /\ []("a" \in DOMAIN files /\ opened[1] /\ has_table(tables[1], "a") =>
            NoRepeat(KeyFields(files["a"], get_table(tables[1], "a").pk_position)))
    /\ [][StoredKeyRefusedByClones]_vars

(***************************************************************************)
(* SpecBlock: one Block over the file of table "a".  Tuples are written    *)
(* and read back by seek_to_offset at the offsets the writes started at.   *)
(* The history puts["a"] holds, for every write, <<offset, tuple>>: the    *)
(* length of the file before the write and the tuple written.              *)
(***************************************************************************)
\* the tuples Block::write is tried with: the empty tuple, null, Boolean,
\* Integer in its three encodings, empty and non-empty Text, a Text that
\* prints like an Integer, and mixes of them
Tuples ==
    { << >>,
      <<Null>>,
      <<Integer(1)>>,
      <<Integer(127), Integer(128)>>,
      <<Integer(300), Null>>,
      <<Boolean(0), Boolean(1)>>,
      <<Text(<< >>)>>,
      <<Text(<<49>>), Integer(49)>>,
      <<Integer(200), Null, TextAB>>,
      <<Null, Boolean(1), Integer(0), TextA>> }

\* Block::new over the file of a table just created
InitBlock ==
    /\ files = ("a" :> << >>)
    /\ catalog_file = << >>
    /\ opened = [h \in Handles |-> h = 1]
    /\ tables = [h \in Handles |-> << >>]
    /\ byte_offset = [t \in TableNames |-> 0]
    /\ pc = [h \in Handles |-> "idle"]
    /\ pending = [h \in Handles |-> NoPending]
    /\ result = Status("new", "a", Null, "Ok")
    /\ puts = [t \in TableNames |-> << >>]
    /\ lost = {}
    /\ queue = << >>
    /\ task = [t \in Tasks |-> NoTask]

\* Block::write(tuple): the frame goes to the end of the file; the response
\* carries the length returned
BlockWrite(tuple) ==
    /\ Frames(files["a"]) < MaxFrames
    /\ \E written \in {Block_write(files["a"], tuple)} :
        /\ files' = [files EXCEPT !["a"] = written.file]
        /\ result' = [Status("write", "a", Null, "Ok") EXCEPT !.size = written.length]
    /\ puts' = [puts EXCEPT !["a"] = Append(@, <<Len(files["a"]), tuple>>)]
    /\ UNCHANGED <<catalog_file, opened, tables, byte_offset, pc, pending, lost, server>>

\* Block::seek_to_offset at the offset of the i-th write: the response
\* carries the tuple read, and i as its size
BlockSeek(i) ==
    /\ i \in 1..Len(puts["a"])
    /\ \E r \in {seek_to_offset(files["a"], puts["a"][i][1])} :
        result' = [Response("seek_to_offset", "a", Null,
                            IF r.ok THEN "Ok" ELSE "StorageError", r.ok, EmptyRecord,
                            <<r.tuple>>) EXCEPT !.size = i]
    /\ UNCHANGED <<files, catalog_file, opened, tables, byte_offset, pc, pending, puts, lost,
                   server>>

NextBlock ==
    \/ \E tuple \in Tuples : BlockWrite(tuple)
    \/ \E i \in 1..MaxFrames : BlockSeek(i)

SpecBlock == InitBlock /\ [][NextBlock]_vars

\* C18: Block round-trip.  For every tuple written (null, Boolean, Integer
\* and Text positions in any mix) after any earlier frames, seek_to_offset
\* at the offset where Block::write placed the frame returns a tuple equal
\* to the one written, right after the write and after every later write.
BlockRoundTrip ==
    /\ \A i \in 1..Len(puts["a"]) :
          seek_to_offset(files["a"], puts["a"][i][1])
            = [ok |-> TRUE, tuple |-> puts["a"][i][2]]
    /\ result.op = "seek_to_offset" =>
          /\ result.status = "Ok"
          /\ result.records = <<puts["a"][result.size][2]>>

\* the tuple mixing null, Boolean, Integer and Text was read back from the
\* second frame of the log
BlockRoundTripWitness ==
    /\ result.op = "seek_to_offset" /\ result.size = 2
    /\ puts["a"][2][1] > 0
    /\ puts["a"][2][2] = <<Null, Boolean(1), Integer(0), TextA>>
    /\ result.records = <<<<Null, Boolean(1), Integer(0), TextA>>>>

(***************************************************************************)
(* SpecFacade: the server (main.rs).  One Database behind a tokio RwLock;  *)
(* every request is a task that takes the lock, runs its operation on the  *)
(* Database and drops the guard when it returns.  The lock grants in the   *)
(* order of arrival.                                                       *)
(***************************************************************************)
WriterOps == {"create_table", "drop_table", "put_item"}

ReaderOps == {"get_item", "filter_item", "get_size"}

\* the requests the server is tried with, one per handler
Requests ==
    { [NoRequest EXCEPT !.op = "create_table",
                        !.def = TableDefinition("a", <<Column("id", "Integer"),
                                                       Column("name", "Text")>>, "id")],
      [NoRequest EXCEPT !.op = "drop_table", !.table = "a"],
      [NoRequest EXCEPT !.op = "put_item", !.table = "a", !.item = ("id" :> Integer(1))],
      [NoRequest EXCEPT !.op = "get_item", !.table = "a", !.key = Integer(1)],
      [NoRequest EXCEPT !.op = "filter_item", !.table = "a",
                        !.filter = Comparison("id", "Gte", Integer(1))],
      [NoRequest EXCEPT !.op = "get_size", !.table = "a"] }

\* a put_item handler that takes the lock as the readers do
LockMode_put_reads(op) == IF op \in {"create_table", "drop_table"} THEN "write" ELSE "read"

\* the guard a handler asks for: state.db.write() or state.db.read()
LockMode(op) == IF op \in {"create_table", "drop_table", "put_item"} THEN "write" ELSE "read"

\* the task holds a guard of the lock
Holds(t) == task[t].state \in {"holding", "writing"}

\* RwLock: a read guard is given while no write guard is out, a write guard
\* while no guard is out
Grantable(mode) ==
    IF mode = "read"
    THEN \A t \in Tasks : Holds(t) => LockMode(task[t].request.op) = "read"
    ELSE \A t \in Tasks : ~Holds(t)

\* the router hands a request to its handler, which asks for the lock
Receive(t, request) ==
    /\ task[t].state = "none"
    /\ task' = [task EXCEPT ![t] = [state |-> "waiting", request |-> request]]
    /\ queue' = Append(queue, t)
    /\ UNCHANGED <<files, catalog_file, opened, tables, byte_offset, pc, pending, result,
                   puts, lost>>

\* a lock that lets any waiting reader in ahead of the queue
Acquire_readers_first(t) ==
    /\ task[t].state = "waiting"
    /\ LockMode(task[t].request.op) = "read" \/ Head(queue) = t
    /\ Grantable(LockMode(task[t].request.op))
    /\ task' = [task EXCEPT ![t].state = "holding"]
    /\ queue' = SelectSeq(queue, LAMBDA u : u # t)
    /\ UNCHANGED <<files, catalog_file, opened, tables, byte_offset, pc, pending, result,
                   puts, lost>>

\* the first task waiting gets its guard
Acquire(t) ==
    /\ queue # << >> /\ Head(queue) = t
    /\ Grantable(LockMode(task[t].request.op))
    /\ task' = [task EXCEPT ![t].state = "holding"]
    /\ queue' = Tail(queue)
    /\ UNCHANGED <<files, catalog_file, opened, tables, byte_offset, pc, pending, result,
                   puts, lost>>

\* the operation of a request, on the Database behind the lock
Operation(request) ==
    CASE request.op = "create_table" -> CreateTable(1, request.def)
      [] request.op = "drop_table" -> DropTable(1, request.table)
      [] request.op = "get_item" -> GetItem(1, request.table, request.key)
      [] request.op = "filter_item" -> FilterItem(1, request.table, request.filter)
      [] OTHER -> GetSize(1, request.table)

\* a handler other than put_item's runs its operation and returns, which
\* drops the guard
Handle(t) ==
    /\ task[t].state = "holding" /\ task[t].request.op # "put_item"
    /\ Operation(task[t].request)
    /\ task' = [task EXCEPT ![t] = NoTask]
    /\ UNCHANGED queue

\* put_item_handler up to the end of Block::write; it returns at once when
\* put_item refuses the item
HandlePutAppend(t) ==
    /\ task[t].state = "holding" /\ task[t].request.op = "put_item"
    /\ PutItemAppend(1, task[t].request.table, task[t].request.item)
    /\ task' = [task EXCEPT ![t] = IF pc'[1] = "appended"
                                   THEN [task[t] EXCEPT !.state = "writing"] ELSE NoTask]
    /\ UNCHANGED queue

\* the rest of put_item_handler
HandlePutIndex(t) ==
    /\ task[t].state = "writing"
    /\ PutItemIndex(1)
    /\ task' = [task EXCEPT ![t] = NoTask]
    /\ UNCHANGED queue

NextFacade ==
    \/ \E t \in Tasks, request \in Requests : Receive(t, request)
    \/ \E t \in Tasks : Acquire(t)
    \/ \E t \in Tasks : Handle(t)
    \/ \E t \in Tasks : HandlePutAppend(t)
    \/ \E t \in Tasks : HandlePutIndex(t)

SpecFacade == Init /\ [][NextFacade]_vars

\* C8: facade locking.  Two handlers hold the lock of the Database at the
\* same time only when both are readers (get_item, filter_item, get_size):
\* create_table, drop_table and put_item overlap with no other operation,
\* and a put_item between its append and its index update is alone.
FacadeLocking ==
    /\ \A t, u \in Tasks :
          (t # u /\ Holds(t) /\ Holds(u)) =>
              task[t].request.op \in ReaderOps /\ task[u].request.op \in ReaderOps
    /\ pc[1] = "appended" =>
          Cardinality({t \in Tasks : Holds(t)}) = 1

\* a get_item and a filter_item hold the lock together while a put_item,
\* which came after them, waits
FacadeLockingWitness ==
    \E t, u, w \in Tasks :
        /\ Holds(t) /\ task[t].request.op = "get_item"
        /\ Holds(u) /\ task[u].request.op = "filter_item"
        /\ task[w].state = "waiting" /\ task[w].request.op = "put_item"
        /\ get_table_size(tables[1], "a") = 1


(***************************************************************************)
(* SpecFacadeFair: the server under fair scheduling.  The tokio runtime    *)
(* polls every task that can run, and the RwLock wakes its waiters in the  *)
(* order of arrival: a step that stays possible is taken.  The clients     *)
(* send put_item only while the log has room below MaxFrames.              *)
(***************************************************************************)
\* the put_item requests received and not yet answered
PutsInFlight == Cardinality({t \in Tasks : task[t].request.op = "put_item"})

\* the complete frames of a table's log, 0 when the table has no file
LogFrames(name) == IF name \in DOMAIN files THEN Frames(files[name]) ELSE 0

\* a request the router hands to its handler
Admit(t, request) ==
    /\ request.op = "put_item" => LogFrames(request.table) + PutsInFlight < MaxFrames
    /\ Receive(t, request)

NextFacadeFair ==
    \/ \E t \in Tasks, request \in Requests : Admit(t, request)
    \/ \E t \in Tasks : Acquire(t)
    \/ \E t \in Tasks : Handle(t)
    \/ \E t \in Tasks : HandlePutAppend(t)
    \/ \E t \in Tasks : HandlePutIndex(t)

\* a handler other than put_item's returns and drops its guard, seen on the
\* tasks alone
Return(t) ==
    /\ task[t].state = "holding" /\ task[t].request.op # "put_item"
    /\ task' = [task EXCEPT ![t] = NoTask]

\* the lock wakes the first waiter once it can be served; a handler that
\* holds its guard is polled until it returns
SpecFacadeFair ==
    /\ Init /\ [][NextFacadeFair]_vars
    /\ WF_vars(\E t \in Tasks : Acquire(t))
    /\ \A t \in Tasks : WF_task(Return(t))
    /\ WF_vars(\E t \in Tasks : HandlePutAppend(t) \/ HandlePutIndex(t))

\* the operation of every handler that holds a guard can run: the Database
\* is between two operations, or inside the put_item of the task that writes
HandlerCanRun ==
    \A t \in Tasks :
        /\ task[t].state = "holding" => Idle(1)
        /\ (task[t].state = "holding" /\ task[t].request.op = "put_item") =>
               LogFrames(task[t].request.table) < MaxFrames
        /\ task[t].state = "writing" => opened[1] /\ pc[1] = "appended"

\* C22: termination.  Under fair scheduling every request a handler has
\* received (create_table, drop_table, put_item, get_item, filter_item,
\* get_size) gets the lock, runs its operation and returns: no task stays
\* waiting for the lock or holding it forever.
EveryCallReturns ==
    /\ []HandlerCanRun
    /\ \A t \in Tasks : (task[t].state # "none") ~> (task[t].state = "none")

\* every caller has returned, the last one a filter_item that was served the
\* row an earlier put_item stored
EveryCallReturnsWitness ==
    /\ queue = << >> /\ \A t \in Tasks : task[t].state = "none"
    /\ result.op = "filter_item" /\ result.status = "Ok" /\ Len(result.records) = 1


(***************************************************************************)
(* SpecRecreate: the Database opened over a directory in which table "a"   *)
(* already holds two rows.  Whenever "a" is found empty here, it has been  *)
(* dropped and created again.                                              *)
(***************************************************************************)
\* the definition table "a" was created with
InitialDefinition ==
    TableDefinition("a", <<Column("id", "Integer"), Column("name", "Text")>>, "id")

\* the items put into it, in order
InitialItems == << ("id" :> Integer(1)) @@ ("name" :> TextA), ("id" :> Integer(200)) >>

\* the log after the two puts
InitialFile ==
    Block_write(Block_write(<< >>, item_to_tuple(InitialItems[1],
                                                 InitialDefinition.columns)).file,
                item_to_tuple(InitialItems[2], InitialDefinition.columns)).file

\* catalog.json after create_table
InitialCatalog ==
    <<SerializableCatalog(add_table(<< >>, InitialDefinition, "a" :> << >>).tables)>>

\* Database::new over that directory
InitRecreate ==
    \E c \in {Catalog_new(InitialCatalog, "a" :> InitialFile)} :
        /\ files = ("a" :> InitialFile)
        /\ catalog_file = InitialCatalog
        /\ opened = [h \in Handles |-> h = 1]
        /\ tables = [h \in Handles |-> IF h = 1 THEN c.tables ELSE << >>]
        /\ byte_offset = [t \in TableNames |->
              IF \E o \in c.offsets : o[1] = t
              THEN (CHOOSE o \in c.offsets : o[1] = t)[2] ELSE 0]
        /\ pc = [h \in Handles |-> "idle"]
        /\ pending = [h \in Handles |-> NoPending]
        /\ result = Status("new", "", Null, c.status)
        /\ puts = [t \in TableNames |->
              IF t = "a" THEN [i \in 1..Len(InitialItems) |->
                                  <<InitialItems[i]["id"], InitialItems[i]>>]
              ELSE << >>]
        /\ lost = {}
        /\ queue = << >>
        /\ task = [t \in Tasks |-> NoTask]

SpecRecreate == InitRecreate /\ [][Next]_vars

\* the table was dropped and nothing has taken its name since: the last
\* response is the drop's Ok, or the catalog and the directory have it no more
Dropped(name) ==
    \/ result.op = "drop_table" /\ result.status = "Ok" /\ result.table = name
    \/ ~has_table(tables[1], name) /\ name \notin DOMAIN files

\* the table exists and holds nothing: get_size is 0, filter_item(And([]))
\* returns no row, get_item finds no key
EmptyTable(tabs, fs, name) ==
    /\ has_table(tabs, name)
    /\ get_table_size(tabs, name) = 0
    /\ filter_item(tabs, fs, name, And(<< >>)) = [status |-> "Ok", records |-> << >>]
    /\ \A key \in Keys :
          /\ Database_get_item(tabs, fs, name, key).status = "Ok"
          /\ ~Database_get_item(tabs, fs, name, key).found

\* the same of the catalog Database::new loads
EmptyAfterReopen(c, fs, name) == c.status = "Ok" /\ EmptyTable(c.tables, fs, name)

\* C23: drop then re-create.  Once drop_table("a") has succeeded on the table
\* that held the keys 1 and 200, a create_table of "a" with a definition whose
\* primary key is one of its columns succeeds, and the table it makes is
\* empty: get_size is 0, filter_item(And([])) returns no row and get_item
\* finds none of the keys, in the Database that created it and in the one
\* loaded from the directory afterwards.
RecreateGivesEmpty ==
    [][\A def \in SchemasOf("a") :
          ( /\ result'.op = "create_table" /\ result'.table = "a"
            /\ Position(def.columns, def.primary_key) # 0
            /\ Dropped("a")
            /\ CreateTable(1, def) ) =>
          ( /\ result'.status = "Ok"
            /\ EmptyTable(tables'[1], files', "a")
            /\ EmptyAfterReopen(Catalog_new(catalog_file', files'), files', "a") )]_vars

\* table "a", which held two rows, was dropped and created again, and the
\* Database just opened over the directory has it empty
RecreateGivesEmptyWitness ==
    /\ result.op = "new" /\ result.status = "Ok" /\ opened[1]
    /\ EmptyTable(tables[1], files, "a")


(***************************************************************************)
(* SpecTorn: one Database over a directory in which a write may be cut     *)
(* short.  Block::write hands the prefix and the payload to the file with  *)
(* two write_all calls; a process that stops inside them leaves the first  *)
(* bytes of the frame at the end of the log.                               *)
(***************************************************************************)
\* the writes cut short in one behaviour
MaxTorn == 1

\* the items put into table "a"
TornItems == { ("id" :> Integer(1)) @@ ("name" :> TextA), ("id" :> Integer(200)) }

\* the first k bytes of a sequence of bytes
Take(bs, k) == IF k <= 0 THEN << >> ELSE SubSeq(bs, 1, IF k < Len(bs) THEN k ELSE Len(bs))

\* write_to_file stopped after k bytes of the frame went to the file
write_to_file_until(file, length_bytes, data, k) ==
    write_to_file(file, Take(length_bytes, k), Take(data, k - Len(length_bytes)))

\* Block::write of `tuple` stopped after k bytes
Block_write_until(file, tuple, k) ==
    write_to_file_until(file, to_le_bytes(Len(serialize_binary(tuple))),
                        serialize_binary(tuple), k)

\* put_item whose Block::write the process does not survive: k bytes of the
\* frame, fewer than the frame has, are in the file
TornWrite(h, table_name, item, k) ==
    /\ Idle(h)
    /\ Cardinality(lost) < MaxTorn
    /\ "Ok" \in put_item_check(tables[h], table_name, item)
    /\ table_name \in DOMAIN files
    /\ \E table \in {get_table(tables[h], table_name)} :
       \E tuple \in {item_to_tuple(item, table.columns)} :
           /\ k < LENGTH_PREFIX_SIZE + Len(serialize_binary(tuple))
           /\ files' = [files EXCEPT ![table_name] = Block_write_until(@, tuple, k)]
           /\ lost' = lost \cup {[table |-> table_name, key |-> item[table.primary_key],
                                  item |-> item, offset |-> Len(files[table_name])]}
           /\ result' = Status("crash", table_name, item[table.primary_key], "Stopped")
    /\ opened' = [g \in Handles |-> FALSE]
    /\ tables' = [g \in Handles |-> << >>]
    /\ byte_offset' = [t \in TableNames |-> 0]
    /\ UNCHANGED <<catalog_file, pc, pending, puts>>

\* Block::get_reader_with_length read to its end: the response carries the
\* items of the stream, each [ok, tuple, length]
ReadLog(h, table_name) ==
    /\ Idle(h) /\ has_table(tables[h], table_name) /\ table_name \in DOMAIN files
    /\ result' = Response("get_reader", table_name, Null, "Ok", FALSE, EmptyRecord,
                          get_reader_with_length(files[table_name]))
    /\ UNCHANGED <<files, catalog_file, opened, tables, byte_offset, pc, pending, puts, lost>>

NextTorn ==
    \/ CreateTable(1, InitialDefinition) /\ UNCHANGED server
    \/ \E item \in TornItems :
          Len(puts["a"]) < MaxFrames /\ PutItemAppend(1, "a", item) /\ UNCHANGED server
    \/ PutItemIndex(1) /\ UNCHANGED server
    \/ \E item \in TornItems, k \in 1..(2 * LENGTH_PREFIX_SIZE) :
          TornWrite(1, "a", item, k) /\ UNCHANGED server
    \/ ReadLog(1, "a") /\ UNCHANGED server
    \/ \E key \in Keys : GetItem(1, "a", key) /\ UNCHANGED server
    \/ Open(1) /\ UNCHANGED server

SpecTorn == Init /\ [][NextTorn]_vars

RECURSIVE EndsBetweenFrames(_, _)
\* the file, read from byte offset `offset`, is whole frames and nothing else:
\* each prefix is followed by as many bytes as it says, up to the end of file
EndsBetweenFrames(file, offset) ==
    IF offset = Len(file) THEN TRUE
    ELSE IF offset + LENGTH_PREFIX_SIZE > Len(file) THEN FALSE
    ELSE IF offset + LENGTH_PREFIX_SIZE + PrefixAt(file, offset) > Len(file) THEN FALSE
    ELSE EndsBetweenFrames(file, offset + LENGTH_PREFIX_SIZE + PrefixAt(file, offset))

\* the stream had an item that is an error
YieldsError(stream) == \E i \in 1..Len(stream) : ~stream[i].ok

\* C24: a reader over a torn log.  get_reader_with_length (and get_reader,
\* which drops the lengths) read to the end yields an error exactly when the
\* log ends inside a frame, its prefix or its payload cut short; it ends
\* without an error exactly when the end of file falls between two frames.
ReaderReportsTornFrame ==
    result.op = "get_reader" =>
        (YieldsError(result.records) <=> ~EndsBetweenFrames(files[result.table], 0))


\* a write was cut short and the Database is open again on table "a"
ReopenedOverTornLog ==
    Idle(1) /\ lost # {} /\ has_table(tables[1], "a") /\ "a" \in DOMAIN files

\* get_item of the key of the item just put gives the record of that item
LastPutReadsBack ==
    get_item(tables[1], files, "a", result.item["id"], FALSE)
        = [status |-> "Ok", found |-> TRUE,
           record |-> ExpectedRecord(get_table(tables[1], "a").columns, result.item)]

\* C25: recovery over a torn tail.  Once a write cut short has left an
\* incomplete frame at the end of the log and the table is open again, the
\* cursor equals the length of the file, and after the next put_item that
\* succeeds get_item of its key returns the record that was put.
TornTailRecovered ==
    ReopenedOverTornLog =>
        /\ byte_offset["a"] = Len(files["a"])
        /\ (result.op = "put_item" /\ result.status = "Ok") => LastPutReadsBack


(***************************************************************************)
(* SpecWriters: two clones of one Block write to the same file.  The clones *)
(* share write_handle, an Arc<RwLock<File>>; write_to_file takes its write  *)
(* guard, hands the prefix and the payload to the file, flushes, syncs and  *)
(* returns, which drops the guard.  pc is the writer's place in             *)
(* write_to_file; puts["a"] records <<start offset, tuple, writer>> of the  *)
(* writes that have written their prefix.                                   *)
(***************************************************************************)
\* a guard of the file handle that lives until TableBuffer::write returns
InWrite_whole_write ==
    {"locked", "prefix", "payload", "flushed", "synced", "written", "updating"}

\* the places of write_to_file at which the guard is held
InWrite == {"locked", "prefix", "payload", "flushed", "synced"}

\* a handle whose guard any number of writers may hold at once
HandleFree_shared == TRUE

\* self.write_handle.write().await can be granted: no guard is out
HandleFree == \A g \in Handles : pc[g] \notin InWrite

\* two clones of the Block of a table just created
InitWriters ==
    /\ files = ("a" :> << >>)
    /\ catalog_file = << >>
    /\ opened = [h \in Handles |-> TRUE]
    /\ tables = [h \in Handles |-> << >>]
    /\ byte_offset = [t \in TableNames |-> 0]
    /\ pc = [h \in Handles |-> "idle"]
    /\ pending = [h \in Handles |-> NoPending]
    /\ result = Status("new", "a", Null, "Ok")
    /\ puts = [t \in TableNames |-> << >>]
    /\ lost = {}
    /\ queue = << >>
    /\ task = [t \in Tasks |-> NoTask]

\* Block::write serializes the tuple and write_to_file gets the guard
WriteLock(h, tuple) ==
    /\ pc[h] = "idle"
    /\ Len(puts["a"]) + Cardinality({g \in Handles : pc[g] = "locked"}) < MaxFrames
    /\ HandleFree
    /\ pc' = [pc EXCEPT ![h] = "locked"]
    /\ pending' = [pending EXCEPT ![h] =
          [table |-> "a", key |-> Null, length |-> Len(serialize_binary(tuple)),
           item |-> tuple]]
    /\ UNCHANGED <<files, catalog_file, opened, tables, byte_offset, result, puts, lost>>

\* file.write_all(&length_bytes)
WritePrefix(h) ==
    /\ pc[h] = "locked"
    /\ files' = [files EXCEPT !["a"] = write_to_file(@, to_le_bytes(pending[h].length), << >>)]
    /\ puts' = [puts EXCEPT !["a"] = Append(@, <<Len(files["a"]), pending[h].item, h>>)]
    /\ pc' = [pc EXCEPT ![h] = "prefix"]
    /\ UNCHANGED <<catalog_file, opened, tables, byte_offset, pending, result, lost>>

\* file.write_all(&data)
WritePayload(h) ==
    /\ pc[h] = "prefix"
    /\ files' = [files EXCEPT !["a"] =
                    write_to_file(@, << >>, serialize_binary(pending[h].item))]
    /\ pc' = [pc EXCEPT ![h] = "payload"]
    /\ UNCHANGED <<catalog_file, opened, tables, byte_offset, pending, result, puts, lost>>

\* file.flush()
Flush(h) ==
    /\ pc[h] = "payload"
    /\ pc' = [pc EXCEPT ![h] = "flushed"]
    /\ UNCHANGED <<files, catalog_file, opened, tables, byte_offset, pending, result, puts,
                   lost>>

\* file.sync_all()
SyncAll(h) ==
    /\ pc[h] = "flushed"
    /\ pc' = [pc EXCEPT ![h] = "synced"]
    /\ UNCHANGED <<files, catalog_file, opened, tables, byte_offset, pending, result, puts,
                   lost>>

\* write_to_file returns, the guard is dropped, Block::write returns the length
WriteReturn(h) ==
    /\ pc[h] = "synced"
    /\ pc' = [pc EXCEPT ![h] = "idle"]
    /\ pending' = [pending EXCEPT ![h] = NoPending]
    /\ result' = [Status("write", "a", Null, "Ok") EXCEPT !.size = pending[h].length]
    /\ UNCHANGED <<files, catalog_file, opened, tables, byte_offset, puts, lost>>

NextWriters ==
    \/ \E h \in Handles, tuple \in Tuples : WriteLock(h, tuple) /\ UNCHANGED server
    \/ \E h \in Handles : WritePrefix(h) /\ UNCHANGED server
    \/ \E h \in Handles : WritePayload(h) /\ UNCHANGED server
    \/ \E h \in Handles : Flush(h) /\ UNCHANGED server
    \/ \E h \in Handles : SyncAll(h) /\ UNCHANGED server
    \/ \E h \in Handles : WriteReturn(h) /\ UNCHANGED server

SpecWriters == InitWriters /\ [][NextWriters]_vars

\* write i of the history has handed its payload to the file
PayloadWritten(i) ==
    \/ \E j \in (i + 1)..Len(puts["a"]) : puts["a"][j][3] = puts["a"][i][3]
    \/ pc[puts["a"][i][3]] # "prefix"

\* the frame of write i lies in the file in one piece, from the offset at
\* which its prefix went in
InOnePiece(i) ==
    SubSeq(files["a"], puts["a"][i][1] + 1,
           puts["a"][i][1] + LENGTH_PREFIX_SIZE + Len(serialize_binary(puts["a"][i][2])))
        = to_le_bytes(Len(serialize_binary(puts["a"][i][2])))
            \o serialize_binary(puts["a"][i][2])

\* the prefix and the payload of every write are contiguous, and a write that
\* has only its prefix in the file is the last thing in it
FramesContiguous ==
    \A i \in 1..Len(puts["a"]) :
        IF PayloadWritten(i) THEN InOnePiece(i)
        ELSE Len(files["a"]) = puts["a"][i][1] + LENGTH_PREFIX_SIZE

\* one writer at most is inside write_to_file
OneWriter == Cardinality({h \in Handles : pc[h] \in InWrite}) <= 1

\* a writer leaves write_to_file only after flush and sync_all
SyncedBeforeRelease ==
    \A h \in Handles : (pc[h] \in InWrite /\ pc'[h] \notin InWrite) => pc[h] = "synced"

\* C26: writes are serialized by the lock of the file handle.  Under every
\* interleaving of two writers on clones of one Block, one writer at most is
\* inside write_to_file, the 8-byte prefix and the payload of each write lie
\* together in the file with no byte of another write between them, and a
\* writer gives the lock back only after flush and sync_all.
WritesSerialized ==
    /\ [](OneWriter /\ FramesContiguous)
    /\ [][SyncedBeforeRelease]_vars

\* both clones have written a frame, the second writer is past sync_all and
\* still holds the lock
WritesSerializedWitness ==
    /\ Len(puts["a"]) = 2 /\ puts["a"][1][3] = 1 /\ puts["a"][2][3] = 2
    /\ pc[2] = "synced" /\ pc[1] = "idle"
    /\ InOnePiece(1) /\ InOnePiece(2)


(***************************************************************************)
(* SpecBuffer: one TableBuffer over a log that other writers made.  The    *)
(* log is any sequence of frames of the schema [id, name], keys repeated   *)
(* or not; TableBuffer::new replays it, a clone of the Block may append    *)
(* frames the index does not learn of, TableBuffer::get is asked for keys. *)
(***************************************************************************)
\* the tuples of the frames: two with the key 1, one with the key 200
BufferTuples ==
    { <<Integer(1), TextA>>, <<Integer(1), TextAB>>, <<Integer(200), Null>> }

RECURSIVE LogOf(_)
\* the file that holds the frames of `tuples`, in order
LogOf(tuples) ==
    IF tuples = << >> THEN << >>
    ELSE Block_write(LogOf(SubSeq(tuples, 1, Len(tuples) - 1)), tuples[Len(tuples)]).file

\* the logs the TableBuffer is opened over
Logs == UNION {[1..n -> BufferTuples] : n \in 0..MaxFrames}

\* a directory with the log of table "a", no TableBuffer yet
InitBuffer ==
    /\ files \in {("a" :> LogOf(tuples)) : tuples \in Logs}
    /\ catalog_file = << >>
    /\ opened = [h \in Handles |-> FALSE]
    /\ tables = [h \in Handles |-> << >>]
    /\ byte_offset = [t \in TableNames |-> 0]
    /\ pc = [h \in Handles |-> "idle"]
    /\ pending = [h \in Handles |-> NoPending]
    /\ result = Status("new", "a", Null, "Ok")
    /\ puts = [t \in TableNames |-> << >>]
    /\ lost = {}
    /\ queue = << >>
    /\ task = [t \in Tasks |-> NoTask]

\* TableBuffer::new (inside Table::new) over the log
TableNew ==
    /\ tables[1] = << >>
    /\ \E t \in {Table_new(InitialDefinition, files)} :
        /\ t.status = "Ok"
        /\ tables' = [tables EXCEPT ![1] = <<t.table>>]
        /\ byte_offset' = [byte_offset EXCEPT !["a"] = t.byte_offset]
        /\ result' = [Status("TableBuffer::new", "a", Null, t.status)
                      EXCEPT !.size = size(t.table.index)]
    /\ opened' = [opened EXCEPT ![1] = TRUE]
    /\ UNCHANGED <<files, catalog_file, pc, pending, puts, lost>>

\* Block::write through another clone of the Block: the index of this
\* TableBuffer is not updated
CloneWrite(tuple) ==
    /\ tables[1] # << >>
    /\ Frames(files["a"]) < MaxFrames
    /\ files' = [files EXCEPT !["a"] = Block_write(@, tuple).file]
    /\ result' = Status("write", "a", Null, "Ok")
    /\ UNCHANGED <<catalog_file, opened, tables, byte_offset, pc, pending, puts, lost>>

\* TableBuffer::get(key, scan_file): the response carries the tuple found
TableGet(key, scan_file) ==
    /\ tables[1] # << >>
    /\ \E r \in {TableBuffer_get(tables[1][1].index, tables[1][1].pk_position,
                                 files["a"], key, scan_file)} :
        result' = Response(IF scan_file THEN "get(key, true)" ELSE "get(key, false)",
                           "a", key, r.status, r.found, EmptyRecord, <<r.tuple>>)
    /\ UNCHANGED <<files, catalog_file, opened, tables, byte_offset, pc, pending, puts, lost>>

NextBuffer ==
    \/ TableNew /\ UNCHANGED server
    \/ \E tuple \in BufferTuples : CloneWrite(tuple) /\ UNCHANGED server
    \/ \E key \in Keys, scan_file \in BOOLEAN : TableGet(key, scan_file) /\ UNCHANGED server

SpecBuffer == InitBuffer /\ [][NextBuffer]_vars

\* the places, in file order, of the frames whose field at pk_position is key
KeyFrames(reader, pk_position, key) ==
    {i \in 1..Len(reader) : reader[i].ok /\ reader[i].tuple[pk_position] = key}

\* the least and the greatest of a set of numbers that is not empty
Least(S) == CHOOSE i \in S : \A j \in S : i <= j

Greatest(S) == CHOOSE i \in S : \A j \in S : j <= i

\* the answer is the tuple of the frame that starts at byte offset `offset`
AnswersFrameAt(file, offset, answer) ==
    \E i \in 1..Frames(file) :
        /\ StreamOffset(file, i - 1) = offset
        /\ answer = [status |-> "Ok", found |-> TRUE,
                     records |-> <<get_reader(file)[i].tuple>>]

\* the answer is the first frame of the file with the key, none if no frame has it
AnswersFirstFrame(reader, frames, answer) ==
    IF frames = {} THEN answer.status = "Ok" /\ ~answer.found
    ELSE answer = [status |-> "Ok", found |-> TRUE,
                   records |-> <<reader[Least(frames)].tuple>>]

\* what a response says of the tuple
AnswerOf(r) == [status |-> r.status, found |-> r.found, records |-> r.records]

\* C27: TableBuffer::get(key, scan_file).  A key of the index is answered
\* with the tuple of the frame at the indexed offset, whatever a scan would
\* find and whatever scan_file is; a key that is not in the index is answered
\* None when scan_file is false, whatever the log holds, and when scan_file is
\* true with the first frame in file order whose primary-key field equals the
\* key, or None when no frame has it.
TableGetCases ==
    result.op \in {"get(key, true)", "get(key, false)"} =>
        IF result.key \in DOMAIN tables[1][1].index
        THEN AnswersFrameAt(files["a"], tables[1][1].index[result.key], AnswerOf(result))
        ELSE IF result.op = "get(key, false)"
        THEN result.status = "Ok" /\ ~result.found
        ELSE AnswersFirstFrame(get_reader(files["a"]),
                               KeyFrames(get_reader(files["a"]), tables[1][1].pk_position,
                                         result.key),
                               AnswerOf(result))

\* the index, built over a log of one frame, knows the key 1 and not the key
\* 200 a clone wrote since; get(200, true) found the second frame by its scan
TableGetCasesWitness ==
    /\ result.op = "get(key, true)" /\ result.key = Integer(200) /\ result.found
    /\ DOMAIN tables[1][1].index = {Integer(1)}
    /\ result.records = <<<<Integer(200), Null>>>>

\* C28: replay is last-writer-wins.  Right after TableBuffer::new over a log,
\* every key some frame holds is in the index at the start offset of the last
\* frame that holds it, get of the key returns the tuple of that frame, and
\* size() is the number of distinct keys of the log.
ReplayLastWriterWins ==
    result.op = "TableBuffer::new" =>
        /\ \A key \in Keys :
              IF KeyFrames(get_reader(files["a"]), 1, key) = {}
              THEN key \notin DOMAIN tables[1][1].index
              ELSE /\ key \in DOMAIN tables[1][1].index
                   /\ tables[1][1].index[key] =
                        StreamOffset(files["a"],
                            Greatest(KeyFrames(get_reader(files["a"]), 1, key)) - 1)
                   /\ TableBuffer_get(tables[1][1].index, 1, files["a"], key, FALSE)
                        = [status |-> "Ok", found |-> TRUE,
                           tuple |-> get_reader(files["a"])[
                               Greatest(KeyFrames(get_reader(files["a"]), 1, key))].tuple]
        /\ result.size = Cardinality({key \in Keys :
                                         KeyFrames(get_reader(files["a"]), 1, key) # {}})
        /\ size(tables[1][1].index) = result.size

\* the log holds two frames with the key 1; the index has the key once, at
\* the offset of the second frame
ReplayLastWriterWinsWitness ==
    /\ result.op = "TableBuffer::new" /\ result.size = 1
    /\ get_reader(files["a"]) = <<[ok |-> TRUE, tuple |-> <<Integer(1), TextA>>],
                                  [ok |-> TRUE, tuple |-> <<Integer(1), TextAB>>]>>
    /\ tables[1][1].index[Integer(1)] = StreamOffset(files["a"], 1)
    /\ StreamOffset(files["a"], 1) > 0

(***************************************************************************)
(* SpecCompare: a table of one column "c" holding one row; filter_item is  *)
(* called with a Comparison of "c" under each operator against each value. *)
(* The column's declared type and the stored value are drawn in the        *)
(* initial state: the table was created and the row put.                   *)
(***************************************************************************)
\* the values compared: Integers whose numeric order differs from the order
\* of their decimal digits and of their bytes, both Booleans, and Texts of
\* which one is empty, one a prefix of another and one prints like an Integer
CompareValues ==
    { Integer(0), Integer(2), Integer(10), Integer(256),
      Boolean(0), Boolean(1),
      Text(<< >>), TextA, TextAB, Text(<<98>>), Text(<<49, 48>>) }

Operators == {"Eq", "Neq", "Gt", "Lt", "Gte", "Lte"}

CompareDefinition(type) == TableDefinition("a", <<Column("c", type)>>, "c")

\* the directory and the Database after create_table and one put_item
InitCompare ==
    \E type \in {"Integer", "Boolean", "Text"}, a \in CompareValues :
        /\ typecheck_column(Column("c", type), a) = "Ok"
        /\ files = ("a" :> Block_write(<< >>, item_to_tuple(("c" :> a), <<Column("c", type)>>)).file)
        /\ tables = [h \in Handles |->
              IF h = 1 THEN <<Table_new(CompareDefinition(type), files).table>> ELSE << >>]
        /\ catalog_file = <<SerializableCatalog(tables[1])>>
        /\ opened = [h \in Handles |-> h = 1]
        /\ byte_offset = [t \in TableNames |-> IF t = "a" THEN Len(files["a"]) ELSE 0]
        /\ pc = [h \in Handles |-> "idle"]
        /\ pending = [h \in Handles |-> NoPending]
        /\ result = PutStatus("a", ("c" :> a), "Ok")
        /\ puts = [t \in TableNames |-> IF t = "a" THEN <<<<a, ("c" :> a)>>>> ELSE << >>]
        /\ lost = {}
        /\ queue = << >>
        /\ task = [t \in Tasks |-> NoTask]

\* filter_item with the comparison of column "c" to `value`
Compare(operator, value) ==
    FilterItem(1, "a", Comparison("c", operator, value)) /\ UNCHANGED server

NextCompare == \E operator \in Operators, value \in CompareValues : Compare(operator, value)

SpecCompare == InitCompare /\ [][NextCompare]_vars

\* the value the one row of the table holds
StoredValue == get_reader(files["a"])[1].tuple[1]

\* a < b, a == b, a > b as the operators answer them
Below(a, b) == evaluate_binary_operator("Lt", a, b)

Same(a, b) == evaluate_binary_operator("Eq", a, b)

Above(a, b) == evaluate_binary_operator("Gt", a, b)

\* exactly one of a < b, a == b, a > b
ExactlyOne(a, b) ==
    /\ Below(a, b) \/ Same(a, b) \/ Above(a, b)
    /\ ~(Below(a, b) /\ Same(a, b))
    /\ ~(Below(a, b) /\ Above(a, b))
    /\ ~(Same(a, b) /\ Above(a, b))

\* C31: one total order under the six operators.  For the stored value a and
\* every value b, of the same or of another variant, exactly one of a < b,
\* a == b, a > b holds; Neq is the negation of Eq, Gte of Lt and Lte of Gt;
\* a < b is b > a and the order is transitive; two Integers compare as
\* numbers; and filter_item with a comparison of the column answers Ok,
\* returning the row exactly when the operator holds, whatever the declared
\* type of the column.
ComparisonTotalOrder ==
    /\ \A b \in CompareValues :
          /\ ExactlyOne(StoredValue, b)
          /\ evaluate_binary_operator("Neq", StoredValue, b) = ~Same(StoredValue, b)
          /\ evaluate_binary_operator("Gte", StoredValue, b) = ~Below(StoredValue, b)
          /\ evaluate_binary_operator("Lte", StoredValue, b) = ~Above(StoredValue, b)
          /\ Below(StoredValue, b) = Above(b, StoredValue)
          /\ \A c \in CompareValues : Below(StoredValue, b) /\ Below(b, c) => Below(StoredValue, c)
          /\ StoredValue.tag = "Integer" /\ b.tag = "Integer" =>
                /\ Below(StoredValue, b) = (StoredValue.n < b.n)
                /\ Same(StoredValue, b) = (StoredValue.n = b.n)
    /\ result.op = "filter_item" =>
          /\ result.status = "Ok"
          /\ (Len(result.records) = 1)
                = evaluate_binary_operator(result.filter.operator, StoredValue,
                                           result.filter.value)
          /\ result.records # << >> => result.records = <<("c" :> StoredValue)>>

\* the Integer 10 in a column declared Integer was compared with Gte to a
\* Text that prints like it, and the row was not returned: an Integer is
\* below every Text
ComparisonTotalOrderWitness ==
    /\ result.op = "filter_item" /\ result.status = "Ok"
    /\ tables[1][1].columns[1].type = "Integer"
    /\ StoredValue = Integer(10)
    /\ result.filter = Comparison("c", "Gte", Text(<<49, 48>>))
    /\ result.records = << >>

(***************************************************************************)
(* SpecWriteError: one Database whose Block::write may return an error.    *)
(* write_to_file hands the prefix and the payload to the file with two     *)
(* write_all calls, then flushes and syncs; each of the four may fail, and *)
(* the bytes handed over before the failure stay at the end of the file.   *)
(* The process goes on: put_item returns the error to its caller.          *)
(***************************************************************************)
\* the writes that fail in one behaviour
MaxFailed == 1

\* put_item whose Block::write fails after k bytes of the frame went to the
\* file: none (k = 0), a part of the frame, or all of it (flush or sync_all
\* failed); TableBuffer::write returns at once and Index::update is not called
FailedWrite(h, table_name, item, k) ==
    /\ Idle(h)
    /\ Cardinality(lost) < MaxFailed
    /\ "Ok" \in put_item_check(tables[h], table_name, item)
    /\ table_name \in DOMAIN files
    /\ \E table \in {get_table(tables[h], table_name)} :
       \E tuple \in {item_to_tuple(item, table.columns)} :
           /\ k <= LENGTH_PREFIX_SIZE + Len(serialize_binary(tuple))
           /\ files' = [files EXCEPT ![table_name] = Block_write_until(@, tuple, k)]
           /\ lost' = lost \cup {[table |-> table_name, key |-> item[table.primary_key],
                                  item |-> item, offset |-> Len(files[table_name])]}
           /\ result' = PutStatus(table_name, item, "TableStorageError")
    /\ UNCHANGED <<catalog_file, opened, tables, byte_offset, pc, pending, puts>>

NextWriteError ==
    \/ CreateTable(1, InitialDefinition) /\ UNCHANGED server
    \/ \E item \in TornItems :
          Len(puts["a"]) < MaxFrames /\ PutItemAppend(1, "a", item) /\ UNCHANGED server
    \/ PutItemIndex(1) /\ UNCHANGED server
    \/ \E item \in TornItems, k \in 0..(2 * LENGTH_PREFIX_SIZE) :
          FailedWrite(1, "a", item, k) /\ UNCHANGED server
    \/ \E key \in Keys : GetItem(1, "a", key) /\ UNCHANGED server

SpecWriteError == Init /\ [][NextWriteError]_vars

\* a put_item on table "a" has failed inside Block::write and the Database
\* is between two operations
AfterFailedWrite == Idle(1) /\ lost # {} /\ has_table(tables[1], "a")

\* every put that succeeded has its key indexed at the start of a frame
\* holding the tuple that was put
IndexedAtOwnFrame(table, file, history) ==
    \A i \in 1..Len(history) :
        /\ history[i][1] \in DOMAIN table.index
        /\ seek_to_offset(file, table.index[history[i][1]])
             = [ok |-> TRUE, tuple |-> item_to_tuple(history[i][2], table.columns)]

\* a put_item that returns a storage error leaves the index and the cursor
\* as they were
FailedWriteKeepsIndex ==
    (result'.op = "put_item" /\ result'.status = "TableStorageError")
        => tables' = tables /\ byte_offset' = byte_offset

\* C34: a put_item that failed inside Block::write.  The failed call leaves
\* the index and the cursor unchanged, and afterwards the table is
\* consistent: every put_item that succeeded has its key indexed at the
\* start of its own frame, and get_item of the key returns the record put.
FailedWriteLeavesConsistent ==
    /\ [][FailedWriteKeepsIndex]_vars
    /\ [](AfterFailedWrite =>
            /\ IndexedAtOwnFrame(get_table(tables[1], "a"), files["a"], puts["a"])
            /\ ReadsBack(get_table(tables[1], "a"), puts["a"]))

(***************************************************************************)
(* SpecOrder: table "a" of the authors schema holding one row; filter_item *)
(* is called with And and Or over two sub-expressions in both orders.  The *)
(* row is drawn in the initial state: the table was created and the row    *)
(* put, with or without a name.                                            *)
(***************************************************************************)
\* the rows: the name column is null in two of them
OrderItems ==
    { ("id" :> Integer(1)) @@ ("name" :> TextA), ("id" :> Integer(1)),
      ("id" :> Integer(200)) @@ ("name" :> TextA), ("id" :> Integer(200)) }

\* the sub-expressions: two comparisons of the key, one of the column that
\* may be null, one of a column the schema does not have, and a connective
OrderSubs ==
    { Comparison("id", "Eq", Integer(1)),
      Comparison("id", "Gt", Integer(1)),
      Comparison("name", "Eq", TextA),
      Comparison("zip", "Eq", Integer(1)),
      Not(Comparison("name", "Neq", TextA)) }

\* And and Or over every ordered pair of sub-expressions
OrderFilters ==
    {And(<<p, q>>) : p \in OrderSubs, q \in OrderSubs}
        \cup {Or(<<p, q>>) : p \in OrderSubs, q \in OrderSubs}

\* the directory and the Database after create_table and one put_item
InitOrder ==
    \E item \in OrderItems :
        /\ files = ("a" :> Block_write(<< >>, item_to_tuple(item, InitialDefinition.columns)).file)
        /\ tables = [h \in Handles |->
              IF h = 1 THEN <<Table_new(InitialDefinition, files).table>> ELSE << >>]
        /\ catalog_file = <<SerializableCatalog(tables[1])>>
        /\ opened = [h \in Handles |-> h = 1]
        /\ byte_offset = [t \in TableNames |-> IF t = "a" THEN Len(files["a"]) ELSE 0]
        /\ pc = [h \in Handles |-> "idle"]
        /\ pending = [h \in Handles |-> NoPending]
        /\ result = PutStatus("a", item, "Ok")
        /\ puts = [t \in TableNames |-> IF t = "a" THEN <<<<item["id"], item>>>> ELSE << >>]
        /\ lost = {}
        /\ queue = << >>
        /\ task = [t \in Tasks |-> NoTask]

\* filter_item with a connective over two sub-expressions
FilterOrdered(filter) == FilterItem(1, "a", filter) /\ UNCHANGED server

NextOrder == \E filter \in OrderFilters : FilterOrdered(filter)

SpecOrder == InitOrder /\ [][NextOrder]_vars

\* the tuple of the one row of the table
StoredRow == get_reader(files["a"])[1].tuple

\* a sub-expression alone on the row: "true", "false" or "panic"
Alone(e) == evaluate_expression(InitialDefinition.columns, e, StoredRow)

\* what filter_item answered: "panic", "true" (the row returned) or "false"
Answered ==
    IF result.status = "Panic" THEN "panic"
    ELSE IF result.status = "Ok" /\ Len(result.records) = 1 THEN "true"
    ELSE IF result.status = "Ok" /\ result.records = << >> THEN "false"
    ELSE "other"

\* the answer of a connective that stops at a first sub-expression equal to
\* `deciding` and else answers as the second one does
StopsAt(deciding, first, second) ==
    IF Alone(first) = "panic" THEN "panic"
    ELSE IF Alone(first) = deciding THEN deciding
    ELSE Alone(second)

\* C37: And and Or go left to right and stop at the deciding sub-expression.
\* For a connective over two sub-expressions on a row: when the first one
\* decides (false for And, true for Or) the answer is its value and the
\* second is not evaluated, not even when alone it would crash on the row (a
\* null value, a column the schema lacks); otherwise the answer, a crash
\* included, is that of the second.
ConnectivesStopAtDeciding ==
    result.op = "filter_item" =>
        Answered = StopsAt(IF result.filter.kind = "and" THEN "false" ELSE "true",
                           result.filter.subs[1], result.filter.subs[2])

\* on the row {id: 1, name: null}, And of a false comparison of the key and
\* a comparison of the null name was answered without a crash, while the
\* same two sub-expressions in the other order crash on the row
ConnectivesStopAtDecidingWitness ==
    /\ result.op = "filter_item" /\ result.status = "Ok" /\ result.records = << >>
    /\ StoredRow = <<Integer(1), Null>>
    /\ result.filter = And(<<Comparison("id", "Gt", Integer(1)),
                             Comparison("name", "Eq", TextA)>>)
    /\ Alone(Comparison("name", "Eq", TextA)) = "panic"
    /\ Alone(And(<<Comparison("name", "Eq", TextA),
                   Comparison("id", "Gt", Integer(1))>>)) = "panic"

(***************************************************************************)
(* SpecFlush: one Database whose Catalog::flush may fail.  write_json_file *)
(* opens catalog.json with File::create, which truncates it, and hands the *)
(* document to a buffered writer; flush fails when the file cannot be      *)
(* opened, which leaves it as it was, or when a write fails after the      *)
(* file was truncated (the writer passes bytes on before the document's    *)
(* end only once its buffer is full, so this takes a large document).      *)
(* add_table and drop_table change Catalog.tables before they flush.       *)
(***************************************************************************)
\* catalog.json cut short by a failed write: the one entry no catalog
\* serializes to stands for a document that ends before its end
CutDocument == <<TableDefinition("", << >>, "")>>

\* where flush fails: in File::create, or in the write of the document
FlushFailures == {"create", "write"}

\* a failed flush that leaves no catalog.json behind
FailedFlush_removes(cfile, at) == << >>

\* catalog.json after a flush that failed at `at`
FailedFlush(cfile, at) == IF at = "create" THEN cfile ELSE <<CutDocument>>

\* the tables created in SpecFlush
FlushDefinitions ==
    { InitialDefinition,
      TableDefinition("b", <<Column("id", "Integer"), Column("name", "Text")>>, "id") }

\* create_table whose Catalog::add_table has pushed the table when flush fails
CreateTableFlushFails(h, def, at) ==
    /\ Idle(h)
    /\ ~has_table(tables[h], def.name)
    /\ \E disk \in {create_table_on_disk(files, def.name)} :
          /\ disk.status = "Ok"
          /\ \E added \in {add_table(tables[h], def, disk.fs)} :
                /\ added.status = "Ok"
                /\ files' = disk.fs
                /\ tables' = [tables EXCEPT ![h] = added.tables]
                /\ byte_offset' = [byte_offset EXCEPT ![def.name] = added.byte_offset]
    /\ catalog_file' = FailedFlush(catalog_file, at)
    /\ puts' = [puts EXCEPT ![def.name] = << >>]
    /\ result' = Status("create_table", def.name, Null, "CatalogError")
    /\ UNCHANGED <<opened, pc, pending, lost>>

\* drop_table whose Catalog::drop_table has removed the table when flush fails
DropTableFlushFails(h, table_name, at) ==
    /\ Idle(h)
    /\ has_table(tables[h], table_name)
    /\ files' = [t \in DOMAIN files \ {table_name} |-> files[t]]
    /\ tables' = [tables EXCEPT ![h] = retain_others(tables[h], table_name)]
    /\ byte_offset' = [byte_offset EXCEPT ![table_name] = 0]
    /\ catalog_file' = FailedFlush(catalog_file, at)
    /\ puts' = [puts EXCEPT ![table_name] = << >>]
    /\ result' = Status("drop_table", table_name, Null, "CatalogError")
    /\ UNCHANGED <<opened, pc, pending, lost>>

NextFlush ==
    \/ \E def \in FlushDefinitions : CreateTable(1, def) /\ UNCHANGED server
    \/ \E t \in TableNames : DropTable(1, t) /\ UNCHANGED server
    \/ \E def \in FlushDefinitions, at \in FlushFailures :
          CreateTableFlushFails(1, def, at) /\ UNCHANGED server
    \/ \E t \in TableNames, at \in FlushFailures :
          DropTableFlushFails(1, t, at) /\ UNCHANGED server
    \/ \E t \in TableNames, item \in TornItems :
          PutItemAppend(1, t, item) /\ UNCHANGED server
    \/ PutItemIndex(1) /\ UNCHANGED server
    \/ \E t \in TableNames : GetSize(1, t) /\ UNCHANGED server

SpecFlush == Init /\ [][NextFlush]_vars

\* catalog.json describes the tables of the catalog in memory; no file
\* describes no table
CatalogsAgree ==
    \/ catalog_file = <<SerializableCatalog(tables[1])>>
    \/ catalog_file = << >> /\ tables[1] = << >>

\* a flush that fails in add_table leaves the table registered, one that
\* fails in drop_table leaves it removed
MemoryNotRolledBack ==
    /\ \A def \in FlushDefinitions, at \in FlushFailures :
          CreateTableFlushFails(1, def, at) =>
              /\ has_table(tables'[1], def.name)
              /\ TableDefinitionOf(get_table(tables'[1], def.name)) = def
    /\ \A t \in TableNames, at \in FlushFailures :
          DropTableFlushFails(1, t, at) => ~has_table(tables'[1], t)

\* the step is a create_table or drop_table whose flush failed
FlushFailed ==
    \/ \E def \in FlushDefinitions, at \in FlushFailures : CreateTableFlushFails(1, def, at)
    \/ \E t \in TableNames, at \in FlushFailures : DropTableFlushFails(1, t, at)

\* the step is a create_table or drop_table that returned Ok
RewriteSucceeded ==
    result'.op \in {"create_table", "drop_table"} /\ result'.status = "Ok"
        /\ catalog_file' = <<SerializableCatalog(tables'[1])>>

CursorHeld == {"updating", "replaying", "replay_update"}

\* self.byte_offset.lock().await can be granted: no guard is out
CursorFree == \A g \in Handles : pc[g] \notin CursorHeld

\* the directory holds the log of a table, empty or of two frames; no
\* TableBuffer exists yet
InitLocks ==
    /\ files \in {"a" :> << >>, "a" :> InitialFile}
    /\ catalog_file = InitialCatalog
    /\ opened = [h \in Handles |-> FALSE]
    /\ tables = [h \in Handles |-> << >>]
    /\ byte_offset = [t \in TableNames |-> 0]
    /\ pc = [h \in Handles |-> "idle"]
    /\ pending = [h \in Handles |-> NoPending]
    /\ result = Status("new", "a", Null, "Ok")
    /\ puts = [t \in TableNames |-> << >>]
    /\ lost = {}
    /\ queue = << >>
    /\ task = [t \in Tasks |-> NoTask]

\* TableBuffer::new up to the stream of build_index: the index is empty, the
\* cursor cell is new, the file is opened by its path; `each` tells whether
\* the loop goes through Index::update frame by frame or takes the cursor
\* once for the whole loop.  pending.length counts the frames read
ReplayOpen(h, each) ==
    /\ ~opened[h] /\ pc[h] = "idle" /\ tables[h] = << >>
    /\ \A g \in Handles : ~opened[g]
    /\ tables' = [tables EXCEPT ![h] =
          <<TableOf(InitialDefinition,
                    [status |-> "Ok", index |-> EmptyIndex, byte_offset |-> 0,
                     pk_position |-> Position(InitialDefinition.columns,
                                              InitialDefinition.primary_key)]).table>>]
    /\ byte_offset' = [byte_offset EXCEPT !["a"] = 0]
    /\ pc' = [pc EXCEPT ![h] = IF each THEN "stream_each" ELSE "stream"]
    /\ pending' = [pending EXCEPT ![h] = [NoPending EXCEPT !.table = "a"]]
    /\ UNCHANGED <<files, catalog_file, opened, result, puts, lost>>

\* build_index: self.byte_offset.lock().await before the loop
ReplayLock(h) ==
    /\ pc[h] = "stream"
    /\ CursorFree
    /\ pc' = [pc EXCEPT ![h] = "replaying"]
    /\ UNCHANGED <<files, catalog_file, opened, tables, byte_offset, pending, result, puts,
                   lost>>

\* the index and the cursor after the frame `frame` of the stream
ReplayStep(h, frame) ==
    \E u \in {Index_update(tables[h][1].index, byte_offset["a"],
                           frame.tuple[tables[h][1].pk_position], frame.length)} :
        /\ tables' = [tables EXCEPT ![h] = UpdateIndex(tables[h], "a", u.index)]
        /\ byte_offset' = [byte_offset EXCEPT !["a"] = u.byte_offset]
        /\ pending' = [pending EXCEPT ![h].length = @ + 1]

\* one turn of the loop under the guard taken before it
ReplayFrame(h) ==
    /\ pc[h] = "replaying"
    /\ \E stream \in {get_reader_with_length(files["a"])} :
        /\ pending[h].length < Len(stream)
        /\ stream[pending[h].length + 1].ok
        /\ ReplayStep(h, stream[pending[h].length + 1])
    /\ UNCHANGED <<files, catalog_file, opened, pc, result, puts, lost>>

\* the stream has ended: build_index returns, its guard is dropped, and
\* TableBuffer::new returns the TableBuffer
ReplayEnd(h) ==
    /\ pc[h] = "replaying"
    /\ pending[h].length = Len(get_reader_with_length(files["a"]))
    /\ pc' = [pc EXCEPT ![h] = "idle"]
    /\ pending' = [pending EXCEPT ![h] = NoPending]
    /\ opened' = [opened EXCEPT ![h] = TRUE]
    /\ result' = [Status("TableBuffer::new", "a", Null, "Ok")
                  EXCEPT !.size = size(tables[h][1].index)]
    /\ UNCHANGED <<files, catalog_file, tables, byte_offset, puts, lost>>

\* one turn of the loop that calls Index::update: the frame is read and the
\* task waits for the cursor, which Index::update takes
ReplayUpdateLock(h) ==
    /\ pc[h] = "stream_each"
    /\ pending[h].length < Len(get_reader_with_length(files["a"]))
    /\ CursorFree
    /\ pc' = [pc EXCEPT ![h] = "replay_update"]
    /\ UNCHANGED <<files, catalog_file, opened, tables, byte_offset, pending, result, puts,
                   lost>>

\* Index::update of that turn returns and drops the guard
ReplayUpdate(h) ==
    /\ pc[h] = "replay_update"
    /\ \E stream \in {get_reader_with_length(files["a"])} :
        /\ stream[pending[h].length + 1].ok
        /\ ReplayStep(h, stream[pending[h].length + 1])
    /\ pc' = [pc EXCEPT ![h] = "stream_each"]
    /\ UNCHANGED <<files, catalog_file, opened, result, puts, lost>>

\* the stream has ended with no guard out
ReplayDone(h) ==
    /\ pc[h] = "stream_each"
    /\ pending[h].length = Len(get_reader_with_length(files["a"]))
    /\ pc' = [pc EXCEPT ![h] = "idle"]
    /\ pending' = [pending EXCEPT ![h] = NoPending]
    /\ opened' = [opened EXCEPT ![h] = TRUE]
    /\ result' = [Status("TableBuffer::new", "a", Null, "Ok")
                  EXCEPT !.size = size(tables[h][1].index)]
    /\ UNCHANGED <<files, catalog_file, tables, byte_offset, puts, lost>>

\* TableBuffer::write(key, tuple) calls Block::write, which serializes the
\* tuple and waits at self.write_handle.write().await
WriteCall(h, tuple) ==
    /\ Idle(h)
    /\ Len(puts["a"]) + Cardinality({g \in Handles : pc[g] \in {"write", "locked"}})
          < MaxFrames
    /\ pc' = [pc EXCEPT ![h] = "write"]
    /\ pending' = [pending EXCEPT ![h] =
          [table |-> "a", key |-> tuple[tables[h][1].pk_position],
           length |-> Len(serialize_binary(tuple)), item |-> tuple]]
    /\ UNCHANGED <<files, catalog_file, opened, tables, byte_offset, result, puts, lost>>

\* the guard of the file handle is granted
WriteGranted(h) ==
    /\ pc[h] = "write"
    /\ HandleFree
    /\ pc' = [pc EXCEPT ![h] = "locked"]
    /\ UNCHANGED <<files, catalog_file, opened, tables, byte_offset, pending, result, puts,
                   lost>>

\* write_to_file returns and its guard is dropped; Block::write returns the
\* length, and Index::update waits at self.byte_offset.lock().await
BlockWriteReturn(h) ==
    /\ opened[h] /\ pc[h] = "synced"
    /\ pc' = [pc EXCEPT ![h] = "written"]
    /\ UNCHANGED <<files, catalog_file, opened, tables, byte_offset, pending, result, puts,
                   lost>>

\* the guard of the cursor is granted
UpdateGranted(h) ==
    /\ pc[h] = "written"
    /\ CursorFree
    /\ pc' = [pc EXCEPT ![h] = "updating"]
    /\ UNCHANGED <<files, catalog_file, opened, tables, byte_offset, pending, result, puts,
                   lost>>

\* Index::update records the key, advances the cursor and drops its guard;
\* TableBuffer::write returns
UpdateReturn(h) ==
    /\ pc[h] = "updating"
    /\ \E u \in {Index_update(tables[h][1].index, byte_offset["a"], pending[h].key,
                              pending[h].length)} :
        /\ tables' = [tables EXCEPT ![h] = UpdateIndex(tables[h], "a", u.index)]
        /\ byte_offset' = [byte_offset EXCEPT !["a"] = u.byte_offset]
    /\ pc' = [pc EXCEPT ![h] = "idle"]
    /\ pending' = [pending EXCEPT ![h] = NoPending]
    /\ result' = Status("TableBuffer::write", "a", pending[h].key, "Ok")
    /\ UNCHANGED <<files, catalog_file, opened, puts, lost>>

\* TableBuffer::get(key, false) through clone h: the index is read and the
\* file is opened by its path, no lock is asked for
LockFreeGet(h, key) ==
    /\ Idle(h)
    /\ \E r \in {TableBuffer_get(tables[h][1].index, tables[h][1].pk_position,
                                 files["a"], key, FALSE)} :
        result' = Response("get(key, false)", "a", key, r.status, r.found, EmptyRecord,
                           <<r.tuple>>)
    /\ UNCHANGED <<files, catalog_file, opened, tables, byte_offset, pc, pending, puts, lost>>

\* what a task does once it is inside TableBuffer::new or TableBuffer::write
TaskStep(h) ==
    \/ ReplayLock(h) \/ ReplayFrame(h) \/ ReplayEnd(h)
    \/ ReplayUpdateLock(h) \/ ReplayUpdate(h) \/ ReplayDone(h)
    \/ WriteGranted(h) \/ WritePrefix(h) \/ WritePayload(h) \/ Flush(h) \/ SyncAll(h)
    \/ BlockWriteReturn(h) \/ UpdateGranted(h) \/ UpdateReturn(h)

NextLocks ==
    \/ \E each \in BOOLEAN : ReplayOpen(1, each) /\ UNCHANGED server
    \/ ReplayLock(1) /\ UNCHANGED server
    \/ ReplayFrame(1) /\ UNCHANGED server
    \/ ReplayEnd(1) /\ UNCHANGED server
    \/ ReplayUpdateLock(1) /\ UNCHANGED server
    \/ ReplayUpdate(1) /\ UNCHANGED server
    \/ ReplayDone(1) /\ UNCHANGED server
    \/ CloneDatabase /\ UNCHANGED server
    \/ \E h \in Handles, tuple \in BufferTuples : WriteCall(h, tuple) /\ UNCHANGED server
    \/ \E h \in Handles : WriteGranted(h) /\ UNCHANGED server
    \/ \E h \in Handles : WritePrefix(h) /\ UNCHANGED server
    \/ \E h \in Handles : WritePayload(h) /\ UNCHANGED server
    \/ \E h \in Handles : Flush(h) /\ UNCHANGED server
    \/ \E h \in Handles : SyncAll(h) /\ UNCHANGED server
    \/ \E h \in Handles : BlockWriteReturn(h) /\ UNCHANGED server
    \/ \E h \in Handles : UpdateGranted(h) /\ UNCHANGED server
    \/ \E h \in Handles : UpdateReturn(h) /\ UNCHANGED server
    \/ \E h \in Handles, key \in Keys : LockFreeGet(h, key) /\ UNCHANGED server

SpecLocks == InitLocks /\ [][NextLocks]_vars

\* no task holds the guard of the file handle and the guard of the cursor
NeverBothLocks == \A h \in Handles : ~(pc[h] \in InWrite /\ pc[h] \in CursorHeld)

\* each guard is out once at most
OneHolderEach ==
    /\ Cardinality({h \in Handles : pc[h] \in InWrite}) <= 1
    /\ Cardinality({h \in Handles : pc[h] \in CursorHeld}) <= 1

\* while a task is inside TableBuffer::new or TableBuffer::write, some task
\* inside one of them can take its next step
NeverStuck ==
    (\E h \in Handles : pc[h] # "idle") => \E g \in Handles : ENABLED TaskStep(g)

\* a task takes the cursor only where it holds no guard of the file, and a
\* task inside replay never was at write_handle.write()
CursorAfterFile ==
    \A h \in Handles :
        /\ (pc[h] \notin CursorHeld /\ pc'[h] \in CursorHeld) =>
              pc[h] \in {"written", "stream", "stream_each"}
        /\ pc[h] \in {"stream", "stream_each", "replaying", "replay_update"} =>
              pc'[h] \notin InWrite \cup {"write"}

\* a get through an idle clone answers while the guards are out
ReadersNeverWait ==
    \A h \in Handles : Idle(h) => \A key \in Keys : ENABLED LockFreeGet(h, key)

\* C39: within a TableBuffer no task holds the lock of the file handle and
\* the lock of the cursor at once: a write gives the file lock back before
\* Index::update takes the cursor, and replay takes the cursor only.  Under
\* every interleaving of writers and readers on the clones of a table, a
\* task that waits for a lock is never left with no task able to move, and
\* readers wait for no lock.
LocksNeverNested ==
    /\ [](NeverBothLocks /\ OneHolderEach /\ NeverStuck /\ ReadersNeverWait)
    /\ [][CursorAfterFile]_vars

\* clone 1 holds the cursor inside Index::update while clone 2 holds the file
\* handle with its prefix written, after a replay of two frames
LocksNeverNestedWitness ==
    /\ pc[1] = "updating" /\ pc[2] = "prefix"
    /\ size(tables[2][1].index) = 2
    /\ Len(puts["a"]) = 2

=============================================================================
